---- MODULE Spec2Model ----
(***************************************************************************)
(* merge_polylines of vistools.vtk (src/src/vistools/vtk/merge_polylines.py)*)
(* together with the partner search of geometric_search.py, as a state     *)
(* machine: one action per loop iteration or helper call of the function.  *)
(*                                                                         *)
(* Point and cell ids are 0-based as in the code; positions inside a       *)
(* connectivity list are TLA+ sequence positions (1 is Python's [0], Len   *)
(* is Python's [-1]).  Coordinates are integers; a tangent is kept as the  *)
(* unnormalised difference vector and the division by the norm is carried  *)
(* out inside SmoothAngleCheck, so the comparison with cos(smooth_angle)   *)
(* is exact.                                                               *)
(***************************************************************************)
EXTENDS Integers, Sequences, FiniteSets, TLC

\* Python's None (index_2, point_id, consumed tracker entries, return values).
None == -1

\* Largest number of cells of a grid drawn from a cell pool.
MaxCells == 3

\* Largest number of points and of pairs handed to pairs_to_partner_list.
MaxPoints == 4

MaxPairs == 4

\* Squared search radius of kd_tree.query_pairs (tol), in model length units:
\* lattice points one step apart along an axis or a face diagonal are partners.
TolSq == 2

(***************************************************************************)
(* Small helpers                                                           *)
(***************************************************************************)
Range(s) == {s[k] : k \in DOMAIN s}

ZeroBased(s) == [k \in 0 .. (Len(s) - 1) |-> s[k + 1]]

Reverse(s) == [k \in 1 .. Len(s) |-> s[Len(s) + 1 - k]]

Sub(p, q) == <<p[1] - q[1], p[2] - q[2], p[3] - q[3]>>

Dot(a, b) == a[1] * b[1] + a[2] * b[2] + a[3] * b[3]

\* Ascending sequence of the elements of a finite set of integers.
RECURSIVE SortedSeq(_)
SortedSeq(S) ==
    IF S = {} THEN <<>>
    ELSE LET m == CHOOSE x \in S : \A y \in S : x <= y
         IN <<m>> \o SortedSeq(S \ {m})

RECURSIVE Flatten(_)
Flatten(ss) == IF ss = <<>> THEN <<>> ELSE Head(ss) \o Flatten(Tail(ss))

(***************************************************************************)
(* Input grids.  A cell is [cls, ids]; a grid is [points, cells], both     *)
(* 0-based.  Seven scenes: a junction scene (straight run, T-junction,     *)
(* Y-bifurcation, a duplicated point, a polyline with an interior vertex   *)
(* on the junction, two cells that are no lines), a loop scene (a ring of  *)
(* two cells with one sharp and one smooth junction and a branch), a row   *)
(* of points closer than tol, a closed square of four cells, a ring of two  *)
(* polylines whose junctions are shared ids or near-duplicate points,      *)
(* the loop scene with a coincident twin of its sharp junction, and the    *)
(* ring with a branch leaving one of its smooth junctions.  The cells      *)
(* of every scene have pairwise distinct point ids.  Every grid carries    *)
(* one point-data array of one component.                                  *)
(***************************************************************************)
Line(a, b) == [cls |-> "vtkLine", ids |-> <<a, b>>]

PolyLine(ids) == [cls |-> "vtkPolyLine", ids |-> ids]

JunctionPoints ==
    << <<0, 0, 0>>, <<10, 0, 0>>, <<20, 0, 0>>, <<10, 10, 0>>,
       <<10, 0, 0>>, <<40, 10, 0>>, <<40, -10, 0>> >>

JunctionPool ==
    << Line(0, 1), Line(1, 0), Line(1, 2), Line(2, 1), Line(1, 3),
       Line(4, 2), Line(1, 5), Line(1, 6),
       PolyLine(<<0, 1, 3>>), PolyLine(<<3, 0, 1>>),
       [cls |-> "vtkTriangle", ids |-> <<0, 1, 3>>],
       [cls |-> "vtkVertex", ids |-> <<2>>] >>

LoopPoints == << <<0, 0, 0>>, <<4, 0, 0>>, <<-4, -2, 0>>, <<6, 3, 0>> >>

LoopPool ==
    << Line(0, 1), Line(1, 0), PolyLine(<<1, 2, 0>>), PolyLine(<<0, 2, 1>>),
       Line(1, 3), Line(3, 1) >>

\* Four points in a row, each within tol of the next, and a far point.
ClosePoints ==
    << <<0, 0, 0>>, <<3, 0, 0>>, <<2, 0, 0>>, <<1, 0, 0>>, <<20, 0, 0>> >>

ClosePool == << Line(0, 4), Line(4, 1) >>

\* Corners 0..3 and side midpoints 4..7 of a square.
SquarePoints ==
    << <<0, 0, 0>>, <<20, 0, 0>>, <<20, 20, 0>>, <<0, 20, 0>>,
       <<10, 0, 0>>, <<20, 10, 0>>, <<10, 20, 0>>, <<0, 10, 0>> >>

\* The four cells of the square: its sides as lines, its sides as polylines
\* through the midpoints (junctions at the corners), or four bent polylines
\* from midpoint to midpoint (junctions in the middle of the sides).
SquareCells(mode) ==
    CASE mode = "side_lines" ->
           << <<0, 1>>, <<1, 2>>, <<2, 3>>, <<3, 0>> >>
      [] mode = "side_polylines" ->
           << <<0, 4, 1>>, <<1, 5, 2>>, <<2, 6, 3>>, <<3, 7, 0>> >>
      [] mode = "bent_polylines" ->
           << <<4, 1, 5>>, <<5, 2, 6>>, <<6, 3, 7>>, <<7, 0, 4>> >>

SquareModes == {"side_lines", "side_polylines", "bent_polylines"}

\* A square ring of two polylines, A from the middle of the bottom side
\* (point 0) to the middle of the top side (point 3) and B back; 6 is closer
\* than tol to 3 and 7 closer than tol to 0.
RingPoints ==
    << <<10, 0, 0>>, <<20, 0, 0>>, <<20, 20, 0>>, <<10, 20, 0>>,
       <<0, 20, 0>>, <<0, 0, 0>>, <<10, 21, 0>>, <<10, 1, 0>> >>

RingPool ==
    << PolyLine(<<0, 1, 2, 3>>), PolyLine(<<3, 2, 1, 0>>),
       PolyLine(<<3, 4, 5, 0>>), PolyLine(<<6, 4, 5, 0>>),
       PolyLine(<<3, 4, 5, 7>>), PolyLine(<<6, 4, 5, 7>>),
       PolyLine(<<7, 5, 4, 6>>) >>

\* The loop scene with point 4 at the place of its point 1.
LoopDupPoints ==
    << <<0, 0, 0>>, <<4, 0, 0>>, <<-4, -2, 0>>, <<6, 3, 0>>, <<4, 0, 0>> >>

LoopDupPool ==
    << Line(0, 1), Line(0, 4), PolyLine(<<0, 2, 1>>), PolyLine(<<0, 2, 4>>),
       PolyLine(<<4, 2, 0>>), Line(1, 3), Line(4, 3) >>

\* The ring with a branch at point 0: the ring's first polyline continues
\* smoothly into the second and into the branch, which leave point 0 to the
\* same side.
RingBranchPoints == RingPoints \o << <<0, -5, 0>> >>

RingBranchPool ==
    << PolyLine(<<0, 1, 2, 3>>), PolyLine(<<3, 4, 5, 0>>), Line(0, 8), Line(8, 0) >>

\* The point-data array of a grid: one value per point.
PointData(points) == [p \in 0 .. (Len(points) - 1) |-> 3 * p + 1]

CellOf(ids) == IF Len(ids) = 2 THEN Line(ids[1], ids[2]) ELSE PolyLine(ids)

InjectiveSeqs(n, S) ==
    {s \in [1 .. n -> S] : \A a, b \in 1 .. n : a # b => s[a] # s[b]}

PoolGridsOfLen(points, pool, m) ==
    {[points |-> ZeroBased(points),
      point_data |-> PointData(points),
      cells |-> [k \in 0 .. (m - 1) |-> pool[s[k + 1]]]] :
        s \in InjectiveSeqs(m, DOMAIN pool)}

\* Every grid of 1..MaxCells distinct pool cells, in every cell order.
PoolGrids(points, pool) ==
    UNION {PoolGridsOfLen(points, pool, m) : m \in 1 .. MaxCells}

\* Every closed square: junction placement, each cell's stored point order
\* and the numbering of the four cells are free.
SquareGrids ==
    {[points |-> ZeroBased(SquarePoints),
      point_data |-> PointData(SquarePoints),
      cells |-> [k \in 0 .. 3 |->
                   CellOf(IF flip[order[k + 1]]
                          THEN Reverse(SquareCells(mode)[order[k + 1]])
                          ELSE SquareCells(mode)[order[k + 1]])]] :
        mode \in SquareModes,
        flip \in [1 .. 4 -> BOOLEAN],
        order \in Permutations(1 .. 4)}

Grids ==
    PoolGrids(JunctionPoints, JunctionPool)
        \cup PoolGrids(LoopPoints, LoopPool)
        \cup PoolGrids(ClosePoints, ClosePool)
        \cup PoolGrids(RingPoints, RingPool)
        \cup PoolGrids(LoopDupPoints, LoopDupPool)
        \cup PoolGrids(RingBranchPoints, RingBranchPool)
        \cup SquareGrids

(***************************************************************************)
(* Grid queries (vtkUnstructuredGrid)                                      *)
(***************************************************************************)
GetNumberOfCells(g) == Cardinality(DOMAIN g.cells)

GetNumberOfPoints(g) == Cardinality(DOMAIN g.points)

\* grid.GetCellType(i)
GetCellType(g, c) ==
    CASE g.cells[c].cls = "vtkVertex" -> 1
      [] g.cells[c].cls = "vtkLine" -> 3
      [] g.cells[c].cls = "vtkPolyLine" -> 4
      [] g.cells[c].cls = "vtkTriangle" -> 5

\* grid.GetPointCells(point_id): the cells using the point, by ascending id.
GetPointCells(g, point_id) ==
    SortedSeq({c \in DOMAIN g.cells : point_id \in Range(g.cells[c].ids)})

(***************************************************************************)
(* Partner search (geometric_search.py)                                    *)
(***************************************************************************)
DistSq(p, q) == Dot(Sub(p, q), Sub(p, q))

\* kd_tree.query_pairs(r=tol): the pairs (a, b), a < b, not farther than tol.
QueryPairs(g) ==
    {pr \in (DOMAIN g.points) \X (DOMAIN g.points) :
        pr[1] < pr[2] /\ DistSq(g.points[pr[1]], g.points[pr[2]]) <= TolSq}

\* pairs[pairs[:, 0].argsort()]: the pairs by ascending first column; the
\* order of pairs with equal first column is whatever the sort leaves.
SortedPairOrders(P) ==
    {s \in InjectiveSeqs(Cardinality(P), P) :
        \A k \in 1 .. (Cardinality(P) - 1) : s[k][1] <= s[k + 1][1]}

\* Lines 55-62 passing over a pair of two different clusters.
PartnerStep_NoRaise(st, pair) ==
    LET p0 == st.partner_index_list[pair[1]]
        p1 == st.partner_index_list[pair[2]]
    IN IF p0 = -1 /\ p1 = -1
       THEN [st EXCEPT !.partner_index_list =
                          [@ EXCEPT ![pair[1]] = st.n_partners,
                                    ![pair[2]] = st.n_partners],
                       !.n_partners = @ + 1]
       ELSE IF p0 = -1
       THEN [st EXCEPT !.partner_index_list = [@ EXCEPT ![pair[1]] = p1]]
       ELSE IF p1 = -1
       THEN [st EXCEPT !.partner_index_list = [@ EXCEPT ![pair[2]] = p0]]
       ELSE st

\* Lines 55-62 moving the second point into the first point's cluster.
PartnerStep_Unites(st, pair) ==
    LET p0 == st.partner_index_list[pair[1]]
        p1 == st.partner_index_list[pair[2]]
    IN IF p0 = -1 /\ p1 = -1
       THEN [st EXCEPT !.partner_index_list =
                          [@ EXCEPT ![pair[1]] = st.n_partners,
                                    ![pair[2]] = st.n_partners],
                       !.n_partners = @ + 1]
       ELSE IF p0 = -1
       THEN [st EXCEPT !.partner_index_list = [@ EXCEPT ![pair[1]] = p1]]
       ELSE [st EXCEPT !.partner_index_list = [@ EXCEPT ![pair[2]] = p0]]

\* Lines 50-62 without the two branches for one point that has no cluster.
PartnerStep_NoJoin(st, pair) ==
    LET p0 == st.partner_index_list[pair[1]]
        p1 == st.partner_index_list[pair[2]]
    IN IF p0 = -1 /\ p1 = -1
       THEN [st EXCEPT !.partner_index_list =
                          [@ EXCEPT ![pair[1]] = st.n_partners,
                                    ![pair[2]] = st.n_partners],
                       !.n_partners = @ + 1]
       ELSE IF p0 # p1 THEN [st EXCEPT !.raised = TRUE]
       ELSE st

\* One iteration of the loop over the pairs.
PartnerStep(st, pair) ==
    LET p0 == st.partner_index_list[pair[1]]
        p1 == st.partner_index_list[pair[2]]
    IN IF st.raised THEN st
       ELSE IF p0 = -1 /\ p1 = -1
       THEN [st EXCEPT !.partner_index_list =
                          [@ EXCEPT ![pair[1]] = st.n_partners,
                                    ![pair[2]] = st.n_partners],
                       !.n_partners = @ + 1]
       ELSE IF p0 = -1
       THEN [st EXCEPT !.partner_index_list = [@ EXCEPT ![pair[1]] = p1]]
       ELSE IF p1 = -1
       THEN [st EXCEPT !.partner_index_list = [@ EXCEPT ![pair[2]] = p0]]
       ELSE IF p0 # p1 THEN [st EXCEPT !.raised = TRUE]
       ELSE st

RECURSIVE PartnerLoop(_, _)
PartnerLoop(st, pairs) ==
    IF pairs = <<>> THEN st
    ELSE PartnerLoop(PartnerStep(st, Head(pairs)), Tail(pairs))

\* pairs_to_partner_list(pairs, n_points), pairs already in processing order.
PairsToPartnerList(pairs, n_points) ==
    PartnerLoop([partner_index_list |-> [p \in 0 .. (n_points - 1) |-> -1],
                 n_partners |-> 0,
                 raised |-> FALSE],
                pairs)

\* Line 31 without its test of the sentinel, -1 indexing the last list.
PointPartnersToPartnerIndices_NoSentinelTest(point_partners, n_partners) ==
    [c \in 0 .. (n_partners - 1) |->
        SortedSeq({p \in DOMAIN point_partners :
                      \/ point_partners[p] = c
                      \/ point_partners[p] = -1 /\ c = n_partners - 1})]

PointPartnersToPartnerIndices(point_partners, n_partners) ==
    [c \in 0 .. (n_partners - 1) |->
        SortedSeq({p \in DOMAIN point_partners : point_partners[p] = c})]

(***************************************************************************)
(* Tangents and the smoothness test                                        *)
(***************************************************************************)
\* _get_indices_tangent: the last point of the connectivity is tested first.
\* ok = FALSE is ValueError("Given point index does not match ...").
GetIndicesTangent(g, connectivity, point_id) ==
    LET n == Len(connectivity)
    IN IF connectivity[n] = point_id
       THEN [ok |-> TRUE,
             t |-> Sub(g.points[connectivity[n]], g.points[connectivity[n - 1]])]
       ELSE IF connectivity[1] = point_id
       THEN [ok |-> TRUE,
             t |-> Sub(g.points[connectivity[1]], g.points[connectivity[2]])]
       ELSE [ok |-> FALSE, t |-> <<0, 0, 0>>]

\* _smooth_angle_check with smooth_angle = 135 degrees (the default):
\* cos(135 deg) > t1.t2 / (|t1| |t2|), i.e. the dot product is negative and
\* 2 (t1.t2)^2 > |t1|^2 |t2|^2.  A zero tangent gives nan, which compares False.
SmoothAngleCheck(tangent_1, tangent_2) ==
    LET dot == Dot(tangent_1, tangent_2)
    IN dot < 0
       /\ 2 * dot * dot > Dot(tangent_1, tangent_1) * Dot(tangent_2, tangent_2)

\* _PossibleCell.set_cell_tangent
CellTangent(g, possible_cell) ==
    GetIndicesTangent(g, g.cells[possible_cell.cell_id].ids, possible_cell.point_id)

(***************************************************************************)
(* _add_next_cell                                                          *)
(***************************************************************************)
\* Lines 180-201: the cells on the boundary point other than the last cell,
\* then every cell on every other point of the boundary point's cluster.
PossibleNextCells(g, partner_list, partner_grouped, last_cell_id, connected_point_id) ==
    LET direct == SelectSeq(GetPointCells(g, connected_point_id),
                            LAMBDA c : c # last_cell_id)
        partner_index == partner_list[connected_point_id]
        partner_points ==
            IF partner_index = -1 THEN <<>>
            ELSE SelectSeq(partner_grouped[partner_index],
                           LAMBDA p : p # connected_point_id)
        of_point(p) ==
            [k \in 1 .. Len(GetPointCells(g, p)) |->
                [cell_id |-> GetPointCells(g, p)[k], point_id |-> p]]
    IN [k \in 1 .. Len(direct) |->
           [cell_id |-> direct[k], point_id |-> connected_point_id]]
       \o Flatten([k \in 1 .. Len(partner_points) |-> of_point(partner_points[k])])

\* Lines 203-215: the candidates smooth to the boundary tangent.
SmoothConnectedCells(g, possible_next_cells, tangent) ==
    SelectSeq(possible_next_cells,
              LAMBDA pc : SmoothAngleCheck(tangent, CellTangent(g, pc).t))

\* The check of lines 231-244 left out.
SmoothToAnother_Skipped(g, possible_next_cells, new_cell) == FALSE

\* Lines 231-244: some other candidate is smooth to the chosen cell.
SmoothToAnother(g, possible_next_cells, new_cell) ==
    \E k \in 1 .. Len(possible_next_cells) :
        /\ possible_next_cells[k].cell_id # new_cell.cell_id
        /\ SmoothAngleCheck(CellTangent(g, new_cell).t,
                            CellTangent(g, possible_next_cells[k]).t)

\* Line 221 without its test of the tracker.
Continues_NoTrackerCheck(g, old_cell_tracker, possible_next_cells, smooth_connected_cells) ==
    /\ Len(smooth_connected_cells) = 1
    /\ ~SmoothToAnother(g, possible_next_cells, smooth_connected_cells[1])

\* Line 219 taking the first of several smooth cells.
Continues_FirstOfSeveral(g, old_cell_tracker, possible_next_cells, smooth_connected_cells) ==
    /\ Len(smooth_connected_cells) >= 1
    /\ old_cell_tracker[smooth_connected_cells[1].cell_id] # None
    /\ ~SmoothToAnother(g, possible_next_cells, smooth_connected_cells[1])

\* Lines 217-225 alone: the one smooth cell is taken if it is available.
Continues_NoOtherCandidates(g, old_cell_tracker, possible_next_cells, smooth_connected_cells) ==
    /\ Len(smooth_connected_cells) = 1
    /\ old_cell_tracker[smooth_connected_cells[1].cell_id] # None

\* Lines 217-244: TRUE when the chain is continued along the one smooth cell.
Continues(g, old_cell_tracker, possible_next_cells, smooth_connected_cells) ==
    /\ Len(smooth_connected_cells) = 1
    /\ old_cell_tracker[smooth_connected_cells[1].cell_id] # None
    /\ ~SmoothToAnother(g, possible_next_cells, smooth_connected_cells[1])

\* Lines 258-264 without the flip of the new cell's points.
Orientation_NoFlip(new_ids, new_point_id, chain_ids, connected_point_id) ==
    IF new_ids[1] = new_point_id /\ connected_point_id = chain_ids[Len(chain_ids)]
    THEN [extend |-> TRUE, reverse |-> FALSE, ok |-> TRUE]
    ELSE IF new_ids[Len(new_ids)] = new_point_id
            /\ connected_point_id = chain_ids[Len(chain_ids)]
    THEN [extend |-> TRUE, reverse |-> FALSE, ok |-> TRUE]
    ELSE IF new_ids[1] = new_point_id /\ connected_point_id = chain_ids[1]
    THEN [extend |-> FALSE, reverse |-> TRUE, ok |-> TRUE]
    ELSE IF new_ids[Len(new_ids)] = new_point_id /\ connected_point_id = chain_ids[1]
    THEN [extend |-> FALSE, reverse |-> FALSE, ok |-> TRUE]
    ELSE [extend |-> FALSE, reverse |-> FALSE, ok |-> FALSE]

\* Lines 251-278 without the two cases of the chain's first point.
Orientation_LastPointOnly(new_ids, new_point_id, chain_ids, connected_point_id) ==
    IF new_ids[1] = new_point_id /\ connected_point_id = chain_ids[Len(chain_ids)]
    THEN [extend |-> TRUE, reverse |-> FALSE, ok |-> TRUE]
    ELSE IF new_ids[Len(new_ids)] = new_point_id
            /\ connected_point_id = chain_ids[Len(chain_ids)]
    THEN [extend |-> TRUE, reverse |-> TRUE, ok |-> TRUE]
    ELSE [extend |-> FALSE, reverse |-> FALSE, ok |-> FALSE]

\* Lines 251-278: how the new cell's points are joined to the chain.
Orientation(new_ids, new_point_id, chain_ids, connected_point_id) ==
    IF new_ids[1] = new_point_id /\ connected_point_id = chain_ids[Len(chain_ids)]
    THEN [extend |-> TRUE, reverse |-> FALSE, ok |-> TRUE]
    ELSE IF new_ids[Len(new_ids)] = new_point_id
            /\ connected_point_id = chain_ids[Len(chain_ids)]
    THEN [extend |-> TRUE, reverse |-> TRUE, ok |-> TRUE]
    ELSE IF new_ids[1] = new_point_id /\ connected_point_id = chain_ids[1]
    THEN [extend |-> FALSE, reverse |-> TRUE, ok |-> TRUE]
    ELSE IF new_ids[Len(new_ids)] = new_point_id /\ connected_point_id = chain_ids[1]
    THEN [extend |-> FALSE, reverse |-> FALSE, ok |-> TRUE]
    ELSE [extend |-> FALSE, reverse |-> FALSE, ok |-> FALSE]

\* _MergePoint(index)
MergePoint(index) == [index_1 |-> index, index_2 |-> None, point_id |-> None]

\* The index_1 of the chain's entries.
ChainIds(heap, chain) == [k \in 1 .. Len(chain) |-> heap[chain[k]].index_1]

\* Lines 280-302 without the tests of lines 282-285 and 291-294: the
\* connecting point id is always recorded as index_2.
ExtendChain_SecondIndexAlways(heap, chain, ids, extend) ==
    LET n == Len(ids)
        h0 == Len(heap)
        grown == heap \o [k \in 1 .. n |-> MergePoint(ids[k])]
        handles == [k \in 1 .. n |-> h0 + k]
    IN IF extend
       THEN [heap |-> [grown EXCEPT ![chain[Len(chain)]].index_2 = ids[1]],
             chain |-> chain \o SubSeq(handles, 2, n),
             next |-> ids[n]]
       ELSE [heap |-> [grown EXCEPT ![chain[1]].index_2 = ids[n]],
             chain |-> SubSeq(handles, 1, n - 1) \o chain,
             next |-> ids[1]]

\* Lines 280-302 keeping the new cell's own merge point of the junction.
ExtendChain_KeepsJunctionPoint(heap, chain, ids, extend) ==
    LET n == Len(ids)
        h0 == Len(heap)
        grown == heap \o [k \in 1 .. n |-> MergePoint(ids[k])]
        handles == [k \in 1 .. n |-> h0 + k]
    IN IF extend
       THEN [heap |-> grown, chain |-> chain \o handles, next |-> ids[n]]
       ELSE [heap |-> grown, chain |-> handles \o chain, next |-> ids[1]]

\* Lines 280-302: the chain and the merge points after the join.  The new
\* cell's merge points get the handles after those of the heap, in the
\* (possibly reversed) list order; the junction's new merge point is dropped.
ExtendChain(heap, chain, ids, extend) ==
    LET n == Len(ids)
        h0 == Len(heap)
        grown == heap \o [k \in 1 .. n |-> MergePoint(ids[k])]
        handles == [k \in 1 .. n |-> h0 + k]
    IN IF extend
       THEN [heap |-> IF heap[chain[Len(chain)]].index_1 # ids[1]
                      THEN [grown EXCEPT ![chain[Len(chain)]].index_2 = ids[1]]
                      ELSE grown,
             chain |-> chain \o SubSeq(handles, 2, n),
             next |-> ids[n]]
       ELSE [heap |-> IF heap[chain[1]].index_1 # ids[n]
                      THEN [grown EXCEPT ![chain[1]].index_2 = ids[n]]
                      ELSE grown,
             chain |-> SubSeq(handles, 1, n - 1) \o chain,
             next |-> ids[1]]

\* The whole call.  status: "none" (returns None), "added" (returns ret),
\* "raise_tangent" or "raise_orientation" (a ValueError leaves the function).
AddNextCellCall(g, partner_list, partner_grouped, old_cell_tracker, heap, chain, last_cell_id, connected_point_id) ==
    LET possible == PossibleNextCells(g, partner_list, partner_grouped,
                                      last_cell_id, connected_point_id)
        tangent == GetIndicesTangent(g, ChainIds(heap, chain), connected_point_id)
        unchanged(status) ==
            [status |-> status, heap |-> heap, chain |-> chain,
             old_cell_tracker |-> old_cell_tracker,
             last_cell_id |-> last_cell_id, ret |-> None,
             extend |-> FALSE, new_cell |-> [cell_id |-> None, point_id |-> None]]
    IN IF ~tangent.ok \/ \E k \in 1 .. Len(possible) : ~CellTangent(g, possible[k]).ok
       THEN unchanged("raise_tangent")
       ELSE LET smooth == SmoothConnectedCells(g, possible, tangent.t)
            IN IF ~Continues(g, old_cell_tracker, possible, smooth)
               THEN unchanged("none")
               ELSE LET new_cell == smooth[1]
                        new_ids == g.cells[new_cell.cell_id].ids
                        o == Orientation(new_ids, new_cell.point_id,
                                         ChainIds(heap, chain), connected_point_id)
                        e == ExtendChain(heap, chain,
                                         IF o.reverse THEN Reverse(new_ids) ELSE new_ids,
                                         o.extend)
                    IN IF ~o.ok THEN unchanged("raise_orientation")
                       ELSE [status |-> "added", heap |-> e.heap, chain |-> e.chain,
                             old_cell_tracker |->
                                 [old_cell_tracker EXCEPT ![new_cell.cell_id] = None],
                             last_cell_id |-> new_cell.cell_id, ret |-> e.next,
                             extend |-> o.extend, new_cell |-> new_cell]


(***************************************************************************)
(* _find_next_connected_polyline, check_closed, _insert_point_by_index     *)
(***************************************************************************)
\* Lines 319-325 returning the tracker's first entry position whenever some
\* entry is not None.
FirstAvailable_FirstEntry(old_cell_tracker) ==
    IF \A c \in DOMAIN old_cell_tracker : old_cell_tracker[c] = None
    THEN None
    ELSE 0

\* Lines 319-325 taking the last tracker entry that is not None.
FirstAvailable_LastEntry(old_cell_tracker) ==
    LET avail == {c \in DOMAIN old_cell_tracker : old_cell_tracker[c] # None}
    IN IF avail = {} THEN None
       ELSE old_cell_tracker[CHOOSE c \in avail : \A d \in avail : c >= d]

\* Lines 319-325: the first tracker entry that is not None, or None.
FirstAvailable(old_cell_tracker) ==
    LET avail == {c \in DOMAIN old_cell_tracker : old_cell_tracker[c] # None}
    IN IF avail = {} THEN None
       ELSE old_cell_tracker[CHOOSE c \in avail : \A d \in avail : c <= d]

\* check_closed leaving the chain as it is.
CheckClosed_Never(heap, chain, partner_list, partner_grouped) ==
    [heap |-> heap, chain |-> chain]

\* check_closed closing a chain over two partner points without recording
\* the second point id (line 124 left out).
CheckClosed_NoSecondIndex(heap, chain, partner_list, partner_grouped) ==
    LET first == heap[chain[1]]
        last == heap[chain[Len(chain)]]
        partner_id == partner_list[first.index_1]
    IN IF first.index_1 = last.index_1
          \/ (partner_id # -1 /\ last.index_1 \in Range(partner_grouped[partner_id]))
       THEN [heap |-> heap, chain |-> [chain EXCEPT ![Len(chain)] = chain[1]]]
       ELSE [heap |-> heap, chain |-> chain]

\* check_closed recording the last point id also when it equals the first.
CheckClosed_AlwaysSecondIndex(heap, chain, partner_list, partner_grouped) ==
    LET first == heap[chain[1]]
        last == heap[chain[Len(chain)]]
        partner_id == partner_list[first.index_1]
    IN IF first.index_1 = last.index_1
          \/ (partner_id # -1 /\ last.index_1 \in Range(partner_grouped[partner_id]))
       THEN [heap |-> [heap EXCEPT ![chain[1]].index_2 = last.index_1],
             chain |-> [chain EXCEPT ![Len(chain)] = chain[1]]]
       ELSE [heap |-> heap, chain |-> chain]

\* _MergedPolyline.check_closed: the chain and the merge points afterwards.
CheckClosed(heap, chain, partner_list, partner_grouped) ==
    LET first == heap[chain[1]]
        last == heap[chain[Len(chain)]]
        partner_id == partner_list[first.index_1]
    IN IF first.index_1 = last.index_1
       THEN [heap |-> heap, chain |-> [chain EXCEPT ![Len(chain)] = chain[1]]]
       ELSE IF partner_id # -1 /\ last.index_1 \in Range(partner_grouped[partner_id])
       THEN [heap |-> [heap EXCEPT ![chain[1]].index_2 = last.index_1],
             chain |-> [chain EXCEPT ![Len(chain)] = chain[1]]]
       ELSE [heap |-> heap, chain |-> chain]

\* Output coordinates are kept doubled, so that the mean of two source
\* points, 0.5 * (coords1 + coords2), stays an integer vector.
NewCoordsX2(g, merge_point) ==
    LET c1 == g.points[merge_point.index_1]
    IN IF merge_point.index_2 = None
       THEN <<2 * c1[1], 2 * c1[2], 2 * c1[3]>>
       ELSE LET c2 == g.points[merge_point.index_2]
            IN <<c1[1] + c2[1], c1[2] + c2[2], c1[3] + c2[3]>>

\* Lines 386-400: the tuple of the point-data array, doubled like the
\* coordinates.
NewDataX2(g, merge_point) ==
    IF merge_point.index_2 = None
    THEN 2 * g.point_data[merge_point.index_1]
    ELSE g.point_data[merge_point.index_1] + g.point_data[merge_point.index_2]

\* _insert_point_by_index remembering the output id by source point id
\* instead of by merge point.
InsertPointByIndex_MemoBySource(g, target, heap, h) ==
    LET same == {k \in DOMAIN heap :
                    heap[k].index_1 = heap[h].index_1 /\ heap[k].point_id # None}
        known == heap[CHOOSE k \in same : TRUE].point_id
    IN IF same # {}
       THEN [target |-> target,
             heap |-> [heap EXCEPT ![h].point_id = known],
             id |-> known]
       ELSE [target |-> [target EXCEPT !.points_x2 = Append(@, NewCoordsX2(g, heap[h])),
                                       !.data_x2 = Append(@, NewDataX2(g, heap[h]))],
             heap |-> [heap EXCEPT ![h].point_id = Len(target.points_x2)],
             id |-> Len(target.points_x2)]

\* _insert_point_by_index without lines 368-369.
InsertPointByIndex_NoMemo(g, target, heap, h) ==
    [target |-> [target EXCEPT !.points_x2 = Append(@, NewCoordsX2(g, heap[h])),
                               !.data_x2 = Append(@, NewDataX2(g, heap[h]))],
     heap |-> [heap EXCEPT ![h].point_id = Len(target.points_x2)],
     id |-> Len(target.points_x2)]

\* _insert_point_by_index taking the new index after the insertion.
InsertPointByIndex_IndexAfterInsert(g, target, heap, h) ==
    IF heap[h].point_id # None
    THEN [target |-> target, heap |-> heap, id |-> heap[h].point_id]
    ELSE [target |-> [target EXCEPT !.points_x2 = Append(@, NewCoordsX2(g, heap[h])),
                                    !.data_x2 = Append(@, NewDataX2(g, heap[h]))],
          heap |-> [heap EXCEPT ![h].point_id = Len(target.points_x2) + 1],
          id |-> Len(target.points_x2) + 1]

\* _insert_point_by_index(source_grid, target_grid, merge_point)
InsertPointByIndex(g, target, heap, h) ==
    IF heap[h].point_id # None
    THEN [target |-> target, heap |-> heap, id |-> heap[h].point_id]
    ELSE [target |-> [target EXCEPT !.points_x2 = Append(@, NewCoordsX2(g, heap[h])),
                                    !.data_x2 = Append(@, NewDataX2(g, heap[h]))],
          heap |-> [heap EXCEPT ![h].point_id = Len(target.points_x2)],
          id |-> Len(target.points_x2)]

(***************************************************************************)
(* merge_polylines                                                         *)
(***************************************************************************)
\* Line 434 letting every cell with more than one point pass.
CellTypeSupported_ByPointCount(cell) == Len(cell.ids) >= 2

\* Line 434
CellTypeSupported(cell) == cell.cls \in {"vtkLine", "vtkPolyLine"}

\* Lines 435-439 formatting the grid's first cell instead of cell i.
UnsupportedCellError_FirstCell(g, c) ==
    [text |-> "Only lines (vtk type 3) and poly lines (vtk type 4) are supported. Got {} (vtk type {})",
     args |-> [cls |-> g.cells[0].cls, vtk_type |-> GetCellType(g, 0)]]

\* Lines 435-439: the error's text and the values formatted into it.
UnsupportedCellError(g, c) ==
    [text |-> "Only lines (vtk type 3) and poly lines (vtk type 4) are supported. Got {} (vtk type {})",
     args |-> [cls |-> g.cells[c].cls, vtk_type |-> GetCellType(g, c)]]

NoArgs == [cls |-> "", vtk_type |-> 0]

NoError == [text |-> "", args |-> NoArgs]

TangentError ==
    [text |-> "Given point index does not match the connectivity array",
     args |-> NoArgs]

OrientationError == [text |-> "This should not happen", args |-> NoArgs]

PartnerError ==
    [text |-> "Two points are connected to different partner indices.",
     args |-> NoArgs]

\* vtkUnstructuredGrid after Initialize() with fresh points.
EmptyGrid == [points_x2 |-> <<>>, data_x2 |-> <<>>, cells |-> <<>>]

\* What a grid handed in as output_grid holds before the call.
StaleGrid ==
    [points_x2 |-> << <<2, 2, 2>> >>, data_x2 |-> <<2>>, cells |-> << <<0, 0>> >>]

NoPolyline == [connected_cell_points |-> <<>>, last_cell_id |-> None]

(***************************************************************************)
(* merge_polylines as a function of the grid: the same helper calls in the *)
(* same order, composed into the result of one call.                       *)
(***************************************************************************)
RECURSIVE GrowFrom(_, _, _, _, _)
\* Lines 340-346: the while loop over _add_next_cell from one boundary point.
\* st holds the tracker, the merge points, the chain, last_cell_id, the cells
\* of the chain in chain order, and the error that ended the loop, if any.
GrowFrom(g, partner_list, partner_grouped, st, next_point_id) ==
    IF next_point_id = None THEN st
    ELSE LET r == AddNextCellCall(g, partner_list, partner_grouped,
                                  st.old_cell_tracker, st.heap, st.chain,
                                  st.last_cell_id, next_point_id)
         IN IF r.status \in {"raise_tangent", "raise_orientation"}
            THEN [st EXCEPT !.status = r.status]
            ELSE GrowFrom(g, partner_list, partner_grouped,
                          [old_cell_tracker |-> r.old_cell_tracker,
                           heap |-> r.heap,
                           chain |-> r.chain,
                           last_cell_id |-> r.last_cell_id,
                           cells |-> IF r.status # "added" THEN st.cells
                                     ELSE IF r.extend
                                     THEN Append(st.cells, r.new_cell.cell_id)
                                     ELSE <<r.new_cell.cell_id>> \o st.cells,
                           status |-> "ok"],
                          r.ret)

\* _find_next_connected_polyline for the seed next_cell_id.
FindNextConnectedPolylineCall(g, partner_list, partner_grouped, old_cell_tracker, heap, next_cell_id) ==
    LET ids == g.cells[next_cell_id].ids
        h0 == Len(heap)
        seeded == [old_cell_tracker |-> [old_cell_tracker EXCEPT ![next_cell_id] = None],
                   heap |-> heap \o [k \in 1 .. Len(ids) |-> MergePoint(ids[k])],
                   chain |-> [k \in 1 .. Len(ids) |-> h0 + k],
                   last_cell_id |-> next_cell_id,
                   cells |-> <<next_cell_id>>,
                   status |-> "ok"]
        from_start == GrowFrom(g, partner_list, partner_grouped, seeded, ids[1])
    IN IF from_start.status # "ok" THEN from_start
       ELSE GrowFrom(g, partner_list, partner_grouped,
                     [from_start EXCEPT !.last_cell_id = next_cell_id],
                     ids[Len(ids)])

RECURSIVE FindAllPolylines(_, _, _, _)
\* Lines 478-483: the outer loop.  d holds the tracker, the merge points, the
\* finished chains, their cells, and the error that ended the loop, if any.
FindAllPolylines(g, partner_list, partner_grouped, d) ==
    LET c == FirstAvailable(d.old_cell_tracker)
    IN IF c = None THEN d
       ELSE LET f == FindNextConnectedPolylineCall(g, partner_list, partner_grouped,
                                                   d.old_cell_tracker, d.heap, c)
                closed == CheckClosed(f.heap, f.chain, partner_list, partner_grouped)
            IN IF f.status # "ok" THEN [d EXCEPT !.status = f.status]
               ELSE FindAllPolylines(g, partner_list, partner_grouped,
                                     [old_cell_tracker |-> f.old_cell_tracker,
                                      heap |-> closed.heap,
                                      new_cells_connectivity |->
                                          Append(d.new_cells_connectivity, closed.chain),
                                      chains_cells |-> Append(d.chains_cells, f.cells),
                                      status |-> "ok"])

RECURSIVE InsertAll(_, _, _, _, _)
\* Lines 487-493 for one chain: the output grid, the merge points and the
\* cell's point ids after the entries of connectivity have been resolved.
InsertAll(g, target, heap, connectivity, cell) ==
    IF connectivity = <<>> THEN [target |-> target, heap |-> heap, cell |-> cell]
    ELSE LET r == InsertPointByIndex(g, target, heap, Head(connectivity))
         IN InsertAll(g, r.target, r.heap, Tail(connectivity), Append(cell, r.id))

RECURSIVE EmitAll(_, _, _, _, _)
\* Lines 485-498: every chain in turn, then the cells.
EmitAll(g, target, heap, connectivities, new_cells) ==
    IF connectivities = <<>> THEN [target EXCEPT !.cells = new_cells]
    ELSE LET r == InsertAll(g, target, heap, Head(connectivities), <<>>)
         IN EmitAll(g, r.target, r.heap, Tail(connectivities), Append(new_cells, r.cell))

\* merge_polylines(grid) for one order of the pairs: what it raises, or its
\* chains and the contents of the output grid.
MergePolylinesCall(g, sorted_pairs) ==
    LET partners == PairsToPartnerList(sorted_pairs, GetNumberOfPoints(g))
        partner_grouped == PointPartnersToPartnerIndices(partners.partner_index_list,
                                                         partners.n_partners)
        d == FindAllPolylines(g, partners.partner_index_list, partner_grouped,
                              [old_cell_tracker |-> [c \in DOMAIN g.cells |-> c],
                               heap |-> <<>>,
                               new_cells_connectivity |-> <<>>,
                               chains_cells |-> <<>>,
                               status |-> "ok"])
        failed(status) ==
            [status |-> status, chains_cells |-> <<>>, chains_ids |-> <<>>,
             output_grid |-> EmptyGrid]
    IN IF \E c \in DOMAIN g.cells : ~CellTypeSupported(g.cells[c])
       THEN failed("raise_cell_type")
       ELSE IF partners.raised THEN failed("raise_partner")
       ELSE IF d.status # "ok" THEN failed(d.status)
       ELSE [status |-> "ok",
             chains_cells |-> d.chains_cells,
             chains_ids |-> [k \in 1 .. Len(d.new_cells_connectivity) |->
                                ChainIds(d.heap, d.new_cells_connectivity[k])],
             output_grid |-> EmitAll(g, EmptyGrid, d.heap,
                                     d.new_cells_connectivity, <<>>)]

\* The results of merge_polylines(grid), one for every order of the pairs.
MergePolylines(g) ==
    {MergePolylinesCall(g, sorted_pairs) :
        sorted_pairs \in SortedPairOrders(QueryPairs(g))}

VARIABLES
    grid,                   \* the input grid
    output_grid_given,      \* output_grid is not None
    pairs, n_points,        \* the arguments of a direct call of pairs_to_partner_list
    output_grid,            \* contents of the output grid
    pc,                     \* position in merge_polylines
    i,                      \* index of the cell type loop
    err,                    \* the exception that left the function
    returned,               \* "pending", "output_grid", "None" or "raised"
    partner_list, n_partners, partner_grouped,
    old_cell_tracker,
    merge_points,           \* every _MergePoint created, by handle
    merged_polyline,        \* the chain being grown (entries are handles)
    next_cell_id,           \* the seed of the chain being grown
    start_ids,              \* [start_id, end_id] of the seed
    start_pos,              \* position of the loop over start_ids
    next_point_id,          \* the boundary point of the while loop
    new_cells_connectivity, \* the finished chains
    emit_chain, emit_pos,   \* positions of the two emission loops
    new_cells,              \* the output cells' point ids
    consumed,               \* history: cell ids in the order they were consumed
    chain_cells,            \* history: cells of the chain being grown, in chain order
    chains_cells,           \* history: chain_cells of every finished chain
    joins                   \* history: the joins made by _add_next_cell

vars ==
    <<grid, output_grid_given, pairs, n_points, output_grid, pc, i, err,
      returned, partner_list, n_partners, partner_grouped, old_cell_tracker, merge_points,
      merged_polyline, next_cell_id, start_ids, start_pos, next_point_id,
      new_cells_connectivity, emit_chain, emit_pos, new_cells, consumed,
      chain_cells, chains_cells, joins>>

inputVars == <<grid, output_grid_given, pairs, n_points>>

partnerVars == <<partner_list, n_partners, partner_grouped>>

growVars ==
    <<merge_points, merged_polyline, next_cell_id, start_ids, start_pos,
      next_point_id>>

emitVars == <<emit_chain, emit_pos, new_cells>>

historyVars == <<consumed, chain_cells, chains_cells, joins>>

Init ==
    /\ grid \in Grids
    /\ output_grid_given \in BOOLEAN
    /\ pairs = <<>>
    /\ n_points = 0
    /\ output_grid = IF output_grid_given THEN StaleGrid ELSE EmptyGrid
    /\ pc = "check_cells"
    /\ i = 0
    /\ err = NoError
    /\ returned = "pending"
    /\ partner_list = <<>>
    /\ n_partners = 0
    /\ partner_grouped = <<>>
    /\ old_cell_tracker = <<>>
    /\ merge_points = <<>>
    /\ merged_polyline = NoPolyline
    /\ next_cell_id = None
    /\ start_ids = <<>>
    /\ start_pos = 1
    /\ next_point_id = None
    /\ new_cells_connectivity = <<>>
    /\ emit_chain = 1
    /\ emit_pos = 1
    /\ new_cells = <<>>
    /\ consumed = <<>>
    /\ chain_cells = <<>>
    /\ chains_cells = <<>>
    /\ joins = {}

Raise(e) ==
    /\ pc' = "error"
    /\ err' = e
    /\ returned' = "raised"

\* Lines 430-439: one iteration of the cell type loop.
CheckCellType ==
    /\ pc = "check_cells"
    /\ i < GetNumberOfCells(grid)
    /\ IF CellTypeSupported(grid.cells[i])
       THEN i' = i + 1 /\ UNCHANGED <<pc, err, returned>>
       ELSE Raise(UnsupportedCellError(grid, i)) /\ UNCHANGED i
    /\ UNCHANGED <<inputVars, output_grid, partnerVars, old_cell_tracker,
                   growVars, new_cells_connectivity, emitVars, historyVars>>

\* Lines 441-461 without Initialize(): a given grid keeps what it held.
PrepareOutput_NoInitialize ==
    /\ pc = "check_cells"
    /\ i = GetNumberOfCells(grid)
    /\ pc' = "search"
    /\ UNCHANGED <<inputVars, output_grid, i, err, returned, partnerVars, old_cell_tracker,
                   growVars, new_cells_connectivity, emitVars, historyVars>>

\* Lines 441-461 resetting only a grid created by the call.
PrepareOutput_NewGridOnly ==
    /\ pc = "check_cells"
    /\ i = GetNumberOfCells(grid)
    /\ output_grid' = IF output_grid_given THEN output_grid ELSE EmptyGrid
    /\ pc' = "search"
    /\ UNCHANGED <<inputVars, i, err, returned, partnerVars, old_cell_tracker,
                   growVars, new_cells_connectivity, emitVars, historyVars>>

\* Lines 441-461: the loop is over; the output grid is created or reset.
PrepareOutput ==
    /\ pc = "check_cells"
    /\ i = GetNumberOfCells(grid)
    /\ output_grid' = EmptyGrid
    /\ pc' = "search"
    /\ UNCHANGED <<inputVars, i, err, returned, partnerVars, old_cell_tracker,
                   growVars, new_cells_connectivity, emitVars, historyVars>>

\* Lines 463-477: the partner search and the cell tracker.
SearchPartners ==
    /\ pc = "search"
    /\ \E sorted_pairs \in SortedPairOrders(QueryPairs(grid)) :
          LET r == PairsToPartnerList(sorted_pairs, GetNumberOfPoints(grid))
          IN IF r.raised
             THEN /\ Raise(PartnerError)
                  /\ UNCHANGED <<partnerVars, old_cell_tracker>>
             ELSE /\ partner_list' = r.partner_index_list
                  /\ n_partners' = r.n_partners
                  /\ partner_grouped' =
                         PointPartnersToPartnerIndices(r.partner_index_list,
                                                       r.n_partners)
                  /\ old_cell_tracker' =
                         [c \in 0 .. (GetNumberOfCells(grid) - 1) |-> c]
                  /\ pc' = "find"
                  /\ UNCHANGED <<err, returned>>
    /\ UNCHANGED <<inputVars, output_grid, i, growVars, new_cells_connectivity,
                   emitVars, historyVars>>

\* Lines 319-339: the seed of the next chain, or the end of the outer loop.
FindNextConnectedPolyline ==
    /\ pc = "find"
    /\ LET c == FirstAvailable(old_cell_tracker)
           ids == grid.cells[c].ids
           h0 == Len(merge_points)
       IN IF c = None
          THEN /\ pc' = "emit"
               /\ UNCHANGED <<old_cell_tracker, growVars, consumed, chain_cells>>
          ELSE /\ old_cell_tracker' = [old_cell_tracker EXCEPT ![c] = None]
               /\ merge_points' =
                      merge_points \o [k \in 1 .. Len(ids) |-> MergePoint(ids[k])]
               /\ merged_polyline' =
                      [connected_cell_points |-> [k \in 1 .. Len(ids) |-> h0 + k],
                       last_cell_id |-> c]
               /\ next_cell_id' = c
               /\ start_ids' = <<ids[1], ids[Len(ids)]>>
               /\ start_pos' = 1
               /\ next_point_id' = ids[1]
               /\ consumed' = Append(consumed, c)
               /\ chain_cells' = <<c>>
               /\ pc' = "grow"
    /\ UNCHANGED <<inputVars, output_grid, i, err, returned, partnerVars,
                   new_cells_connectivity, emitVars, chains_cells, joins>>

\* Lines 340-346: one call of _add_next_cell from the while loop.
AddNextCell ==
    /\ pc = "grow"
    /\ next_point_id # None
    /\ LET r == AddNextCellCall(grid, partner_list, partner_grouped,
                                old_cell_tracker, merge_points,
                                merged_polyline.connected_cell_points,
                                merged_polyline.last_cell_id, next_point_id)
       IN /\ merge_points' = r.heap
          /\ merged_polyline' = [connected_cell_points |-> r.chain,
                                 last_cell_id |-> r.last_cell_id]
          /\ old_cell_tracker' = r.old_cell_tracker
          /\ next_point_id' = r.ret
          /\ IF r.status = "raise_tangent" THEN Raise(TangentError)
             ELSE IF r.status = "raise_orientation" THEN Raise(OrientationError)
             ELSE UNCHANGED <<pc, err, returned>>
          /\ IF r.status = "added"
             THEN /\ consumed' = Append(consumed, r.new_cell.cell_id)
                  /\ chain_cells' =
                         IF r.extend THEN Append(chain_cells, r.new_cell.cell_id)
                         ELSE <<r.new_cell.cell_id>> \o chain_cells
                  /\ joins' = joins \cup
                         {[boundary |->
                              [cell_id |-> IF r.extend
                                           THEN chain_cells[Len(chain_cells)]
                                           ELSE chain_cells[1],
                               point_id |-> next_point_id],
                           added |-> r.new_cell]}
             ELSE UNCHANGED <<consumed, chain_cells, joins>>
    /\ UNCHANGED <<inputVars, output_grid, i, partnerVars, next_cell_id,
                   start_ids, start_pos, new_cells_connectivity, emitVars,
                   chains_cells>>

\* Line 337 iterating over [start_id] only: the chain is returned after the
\* first while loop.
NextStartIndex_FirstEndOnly ==
    /\ pc = "grow"
    /\ next_point_id = None
    /\ pc' = "closed"
    /\ UNCHANGED <<inputVars, output_grid, i, err, returned, partnerVars,
                   old_cell_tracker, growVars, new_cells_connectivity, emitVars,
                   historyVars>>

\* Lines 337-340: the while loop has ended; the second start index, or the
\* end of _find_next_connected_polyline.
NextStartIndex ==
    /\ pc = "grow"
    /\ next_point_id = None
    /\ IF start_pos = 1
       THEN /\ start_pos' = 2
            /\ merged_polyline' = [merged_polyline EXCEPT !.last_cell_id = next_cell_id]
            /\ next_point_id' = start_ids[2]
            /\ UNCHANGED pc
       ELSE /\ pc' = "closed"
            /\ UNCHANGED <<start_pos, merged_polyline, next_point_id>>
    /\ UNCHANGED <<inputVars, output_grid, i, err, returned, partnerVars,
                   old_cell_tracker, merge_points, next_cell_id, start_ids,
                   new_cells_connectivity, emitVars, historyVars>>

\* Lines 482-483: check_closed and the chain's entry in new_cells_connectivity.
CheckClosedChain ==
    /\ pc = "closed"
    /\ LET r == CheckClosed(merge_points, merged_polyline.connected_cell_points,
                            partner_list, partner_grouped)
       IN /\ merge_points' = r.heap
          /\ merged_polyline' = [merged_polyline EXCEPT !.connected_cell_points = r.chain]
          /\ new_cells_connectivity' = Append(new_cells_connectivity, r.chain)
    /\ chains_cells' = Append(chains_cells, chain_cells)
    /\ pc' = "find"
    /\ UNCHANGED <<inputVars, output_grid, i, err, returned, partnerVars,
                   old_cell_tracker, next_cell_id, start_ids, start_pos,
                   next_point_id, emitVars, consumed, chain_cells, joins>>

\* Lines 487-493: one iteration of the inner emission loop.
InsertPoint ==
    /\ pc = "emit"
    /\ emit_chain <= Len(new_cells_connectivity)
    /\ LET connectivity == new_cells_connectivity[emit_chain]
           r == InsertPointByIndex(grid, output_grid, merge_points,
                                   connectivity[emit_pos])
       IN /\ output_grid' = r.target
          /\ merge_points' = r.heap
          /\ new_cells' = IF emit_pos = 1 THEN Append(new_cells, <<r.id>>)
                          ELSE [new_cells EXCEPT ![emit_chain] = Append(@, r.id)]
          /\ IF emit_pos < Len(connectivity)
             THEN emit_pos' = emit_pos + 1 /\ UNCHANGED emit_chain
             ELSE emit_pos' = 1 /\ emit_chain' = emit_chain + 1
    /\ UNCHANGED <<inputVars, pc, i, err, returned, partnerVars, old_cell_tracker,
                   merged_polyline, next_cell_id, start_ids, start_pos,
                   next_point_id, new_cells_connectivity, historyVars>>

\* Lines 495-503: the cells are added to the output grid; the return value.
AddCells ==
    /\ pc = "emit"
    /\ emit_chain > Len(new_cells_connectivity)
    /\ output_grid' = [output_grid EXCEPT !.cells = new_cells]
    /\ returned' = IF output_grid_given THEN "None" ELSE "output_grid"
    /\ pc' = "done"
    /\ UNCHANGED <<inputVars, i, err, partnerVars, old_cell_tracker, growVars,
                   new_cells_connectivity, emitVars, historyVars>>

Next ==
    \/ CheckCellType
    \/ PrepareOutput
    \/ SearchPartners
    \/ FindNextConnectedPolyline
    \/ AddNextCell
    \/ NextStartIndex
    \/ CheckClosedChain
    \/ InsertPoint
    \/ AddCells

Spec == Init /\ [][Next]_vars

\* The function is one sequential call: it keeps running until it returns
\* or raises.
FairSpec == Spec /\ WF_vars(Next)

(***************************************************************************)
(* pairs_to_partner_list and point_partners_to_partner_indices called on   *)
(* their own: the pairs are those of a point cloud, or any set of at most  *)
(* MaxPairs pairs (a, b), a < b, over at most MaxPoints points, in an      *)
(* order the sort by the first column can leave.                           *)
(***************************************************************************)
\* Three points mutually closer than tol; the same and a far point; four
\* points in a row, each closer than tol to the next only.
PointClouds ==
    { << <<0, 0, 0>>, <<1, 0, 0>>, <<0, 1, 0>> >>,
      << <<0, 0, 0>>, <<9, 9, 9>>, <<1, 0, 0>>, <<0, 1, 0>> >>,
      << <<0, 0, 0>>, <<3, 0, 0>>, <<2, 0, 0>>, <<1, 0, 0>> >> }

CloudGrid(points) ==
    [points |-> ZeroBased(points), point_data |-> PointData(points), cells |-> <<>>]

NoGrid == [points |-> <<>>, point_data |-> <<>>, cells |-> <<>>]

AllPairs(n) == {pr \in (0 .. (n - 1)) \X (0 .. (n - 1)) : pr[1] < pr[2]}

PartnerInit ==
    /\ \/ /\ \E points \in PointClouds : grid = CloudGrid(points)
          /\ n_points = GetNumberOfPoints(grid)
          /\ pairs \in SortedPairOrders(QueryPairs(grid))
       \/ /\ grid = NoGrid
          /\ n_points \in 2 .. MaxPoints
          /\ \E P \in SUBSET AllPairs(n_points) :
                /\ Cardinality(P) <= MaxPairs
                /\ pairs \in SortedPairOrders(P)
    /\ output_grid_given = FALSE
    /\ output_grid = EmptyGrid
    /\ pc = "pairs_loop"
    /\ i = 0
    /\ err = NoError
    /\ returned = "pending"
    /\ partner_list = [p \in 0 .. (n_points - 1) |-> -1]
    /\ n_partners = 0
    /\ partner_grouped = <<>>
    /\ old_cell_tracker = <<>>
    /\ merge_points = <<>>
    /\ merged_polyline = NoPolyline
    /\ next_cell_id = None
    /\ start_ids = <<>>
    /\ start_pos = 1
    /\ next_point_id = None
    /\ new_cells_connectivity = <<>>
    /\ emit_chain = 1
    /\ emit_pos = 1
    /\ new_cells = <<>>
    /\ consumed = <<>>
    /\ chain_cells = <<>>
    /\ chains_cells = <<>>
    /\ joins = {}

\* geometric_search.py lines 44-62: one iteration of the loop over the pairs;
\* i pairs have been processed.
PairsLoopStep ==
    /\ pc = "pairs_loop"
    /\ i < Len(pairs)
    /\ LET st == PartnerStep([partner_index_list |-> partner_list,
                              n_partners |-> n_partners,
                              raised |-> FALSE],
                             pairs[i + 1])
       IN IF st.raised
          THEN /\ Raise(PartnerError)
               /\ UNCHANGED <<i, partner_list, n_partners>>
          ELSE /\ partner_list' = st.partner_index_list
               /\ n_partners' = st.n_partners
               /\ i' = i + 1
               /\ UNCHANGED <<pc, err, returned>>
    /\ UNCHANGED <<inputVars, output_grid, partner_grouped, old_cell_tracker,
                   growVars, new_cells_connectivity, emitVars, historyVars>>

\* geometric_search.py line 63: the loop is over and the lists are returned.
PairsReturn ==
    /\ pc = "pairs_loop"
    /\ i = Len(pairs)
    /\ pc' = "partner_indices"
    /\ UNCHANGED <<inputVars, output_grid, i, err, returned, partnerVars,
                   old_cell_tracker, growVars, new_cells_connectivity, emitVars,
                   historyVars>>

\* geometric_search.py lines 26-33 applied to the returned lists.
PartnerIndices ==
    /\ pc = "partner_indices"
    /\ partner_grouped' = PointPartnersToPartnerIndices(partner_list, n_partners)
    /\ pc' = "partners_done"
    /\ returned' = "partner_indices"
    /\ UNCHANGED <<inputVars, output_grid, i, err, partner_list, n_partners,
                   old_cell_tracker, growVars, new_cells_connectivity, emitVars,
                   historyVars>>

PartnerNext ==
    \/ PairsLoopStep
    \/ PairsReturn
    \/ PartnerIndices

PartnerSpec == PartnerInit /\ [][PartnerNext]_vars


(***************************************************************************)
(* Vocabulary of the properties, defined on the grid itself                *)
(***************************************************************************)
Terminated == pc \in {"done", "error"}

DiscoveryOver == pc \in {"emit", "done"}

CellIdSet == DOMAIN grid.cells

AllCellsAreLines ==
    \A c \in CellIdSet : grid.cells[c].cls \in {"vtkLine", "vtkPolyLine"}

UnsupportedCells ==
    {c \in CellIdSet : grid.cells[c].cls \notin {"vtkLine", "vtkPolyLine"}}

FirstUnsupportedCell == CHOOSE c \in UnsupportedCells : \A d \in UnsupportedCells : c <= d

\* Two point ids at one junction: the same id, or ids of one partner cluster.
SameJunction(p, q) ==
    \/ p = q
    \/ /\ partner_list # <<>>
       /\ partner_list[p] # -1
       /\ partner_list[p] = partner_list[q]

\* A cell end: the cell and its first or last point id.
CellEnds ==
    {e \in [cell_id : CellIdSet, point_id : DOMAIN grid.points] :
        LET ids == grid.cells[e.cell_id].ids
        IN e.point_id \in {ids[1], ids[Len(ids)]}}

\* The outward tangent of a cell end.
EndTangent(e) ==
    LET ids == grid.cells[e.cell_id].ids
    IN IF e.point_id = ids[1]
       THEN Sub(grid.points[ids[1]], grid.points[ids[2]])
       ELSE Sub(grid.points[ids[Len(ids)]], grid.points[ids[Len(ids) - 1]])

SmoothEnds(e, f) == SmoothAngleCheck(EndTangent(e), EndTangent(f))

\* The cell ends that meet at the junction of point p.
EndsAt(p) == {e \in CellEnds : SameJunction(e.point_id, p)}

\* The ends a chain arriving through end e is offered at its junction.
OtherEndsAt(e) == EndsAt(e.point_id) \ {e}

\* f is the one smooth continuation of e by steps 3 to 5.
UniqueSmoothContinuation(e, f) ==
    /\ f \in OtherEndsAt(e)
    /\ f.cell_id # e.cell_id
    /\ SmoothEnds(e, f)
    /\ \A x \in OtherEndsAt(e) \ {f} : ~SmoothEnds(e, x)
    /\ \A x \in OtherEndsAt(e) : x.cell_id # f.cell_id => ~SmoothEnds(f, x)

Closed(chain) == chain[1] = chain[Len(chain)]

\* e and f were joined by a step of _add_next_cell.
JoinedByGrowth(e, f) ==
    \E j \in joins : {j.boundary, j.added} = {e, f}

\* e and f are the two ends of a chain that check_closed has closed.
JoinedByClosure(e, f) ==
    \E k \in 1 .. Len(new_cells_connectivity) :
        LET chain == new_cells_connectivity[k]
            cells == chains_cells[k]
            first == merge_points[chain[1]]
        IN /\ Closed(chain)
           /\ {e.cell_id, f.cell_id} = {cells[1], cells[Len(cells)]}
           /\ {e.point_id, f.point_id} \subseteq {first.index_1, first.index_2}

RECURSIVE SumSeq(_)
SumSeq(s) == IF s = <<>> THEN 0 ELSE Head(s) + SumSeq(Tail(s))

\* Number of points of a chain that joins the cells end to end.
JoinedLength(cells) ==
    1 + SumSeq([k \in 1 .. Len(cells) |-> Len(grid.cells[cells[k]].ids) - 1])

(***************************************************************************)
(* C1: when the discovery loop has ended, every input cell has been        *)
(* consumed by exactly one chain exactly once: the consumption events are  *)
(* as many as the cells, no cell is consumed twice at any time, and every  *)
(* chain has exactly the points of its cells joined end to end.            *)
(***************************************************************************)
C1_EveryCellConsumedOnce ==
    /\ \A a, b \in 1 .. Len(consumed) : a # b => consumed[a] # consumed[b]
    /\ DiscoveryOver =>
          /\ Len(consumed) = GetNumberOfCells(grid)
          /\ \A c \in CellIdSet :
                /\ old_cell_tracker[c] = None
                /\ Cardinality({pos \in {<<k, m>> :
                                    k \in 1 .. Len(chains_cells),
                                    m \in 1 .. MaxCells + 4} :
                                  /\ pos[2] <= Len(chains_cells[pos[1]])
                                  /\ chains_cells[pos[1]][pos[2]] = c}) = 1
          /\ Len(new_cells_connectivity) = Len(chains_cells)
          /\ \A k \in 1 .. Len(chains_cells) :
                Len(new_cells_connectivity[k]) = JoinedLength(chains_cells[k])

C1_Witness ==
    /\ pc = "done"
    /\ GetNumberOfCells(grid) = 3
    /\ Len(chains_cells) = 2

(***************************************************************************)
(* Measures of the work merge_polylines still has to do                    *)
(***************************************************************************)
Available == {c \in DOMAIN old_cell_tracker : old_cell_tracker[c] # None}

\* Steps the emission loops still have to make.
EmitLeft ==
    SumSeq([k \in 1 .. Len(new_cells_connectivity) |->
               IF k < emit_chain THEN 0
               ELSE IF k = emit_chain
               THEN Len(new_cells_connectivity[k]) - (emit_pos - 1)
               ELSE Len(new_cells_connectivity[k])])

TotalIds == SumSeq([k \in 1 .. GetNumberOfCells(grid) |-> Len(grid.cells[k - 1].ids)])

\* A natural number that every step of the function makes smaller: the
\* cells still available weigh more than the position inside one chain's
\* growth, and the whole discovery more than the emission it leads to.
Rank ==
    CASE Terminated -> 0
      [] pc = "emit" -> 1 + EmitLeft
      [] pc = "find" -> 2 + TotalIds + 6 * Cardinality(Available)
      [] pc = "closed" -> 3 + TotalIds + 6 * Cardinality(Available)
      [] pc = "grow" ->
           2 + TotalIds + 6 * Cardinality(Available)
             + (IF start_pos = 1 THEN 4 ELSE 2)
             + (IF next_point_id = None THEN 0 ELSE 1)
      [] pc = "search" -> 8 + TotalIds + 6 * GetNumberOfCells(grid)
      [] pc = "check_cells" ->
           9 + TotalIds + 7 * GetNumberOfCells(grid) - i

(***************************************************************************)
(* C2: merge_polylines terminates: every call of _add_next_cell consumes   *)
(* one available cell or returns None, every call of                       *)
(* _find_next_connected_polyline consumes a seed or ends the outer loop,   *)
(* and every step of the function lowers a natural number that is zero     *)
(* exactly when the function has returned or raised.                       *)
(***************************************************************************)
C2_Terminates ==
    [][/\ Rank' < Rank
       /\ Rank' >= 0
       /\ (Rank' = 0) <=> Terminated'
       /\ (pc = "grow" /\ next_point_id # None) =>
              \/ next_point_id' = None
              \/ /\ Available' \subseteq Available
                 /\ Cardinality(Available') = Cardinality(Available) - 1
       /\ pc = "find" =>
              \/ pc' = "emit" /\ Available = {}
              \/ /\ Available' \subseteq Available
                 /\ Cardinality(Available') = Cardinality(Available) - 1]_vars

C2_Witness ==
    /\ pc = "done"
    /\ Len(consumed) = 3
    /\ Len(chains_cells) = 1

(***************************************************************************)
(* C3: the function completes or raises one of three errors only: the      *)
(* unsupported cell type, the ambiguous partner cluster, or the            *)
(* orientation mismatch.                                                   *)
(***************************************************************************)
C3_OnlyThreeErrors ==
    pc = "error" =>
        err.text \in {UnsupportedCellError(grid, 0).text, PartnerError.text,
                      OrientationError.text}

(***************************************************************************)
(* C4: a cell that is no line or polyline, at any index, makes the         *)
(* function raise the unsupported cell type error before the partner       *)
(* index is built, before the tracker exists or a cell is consumed, and    *)
(* with the output grid untouched.                                         *)
(***************************************************************************)
C4_UnsupportedRaisedFirst ==
    UnsupportedCells # {} =>
        /\ pc \in {"check_cells", "error"}
        /\ pc = "error" =>
              /\ err.text = UnsupportedCellError(grid, 0).text
              /\ returned = "raised"
        /\ partner_list = <<>>
        /\ partner_grouped = <<>>
        /\ old_cell_tracker = <<>>
        /\ consumed = <<>>
        /\ merge_points = <<>>
        /\ output_grid = IF output_grid_given THEN StaleGrid ELSE EmptyGrid

C4_Witness ==
    /\ pc = "error"
    /\ output_grid_given
    /\ GetNumberOfCells(grid) = 3
    /\ UnsupportedCells = {2}

(***************************************************************************)
(* C5 as stated: the unsupported cell type error names the index of the    *)
(* first offending cell and that cell's kind.                              *)
(***************************************************************************)
C5_ErrorNamesIndexAndKind ==
    (pc = "error" /\ UnsupportedCells # {}) =>
        /\ "index" \in DOMAIN err.args
        /\ err.args.index = FirstUnsupportedCell
        /\ err.args.cls = grid.cells[FirstUnsupportedCell].cls

(***************************************************************************)
(* C5 as amended: the unsupported cell type error names the kind of the    *)
(* first offending cell, its class and its vtk type number, and nothing    *)
(* else: the cell's index is not part of the error.                        *)
(***************************************************************************)
C5_ErrorNamesKindOnly ==
    (pc = "error" /\ UnsupportedCells # {}) =>
        /\ DOMAIN err.args = {"cls", "vtk_type"}
        /\ err.args.cls = grid.cells[FirstUnsupportedCell].cls
        /\ err.args.vtk_type =
              IF grid.cells[FirstUnsupportedCell].cls = "vtkTriangle" THEN 5 ELSE 1

C5_Witness ==
    /\ pc = "error"
    /\ UnsupportedCells = {1, 2}
    /\ err.args.cls = "vtkVertex"


(***************************************************************************)
(* C6: every output chain is a maximal run: when the function has          *)
(* finished, two ends of different cells that are each other's one smooth  *)
(* continuation at their junction are joined there in one output chain.    *)
(***************************************************************************)
C6_ChainsAreMaximal ==
    pc = "done" =>
        \A e, f \in CellEnds :
            (UniqueSmoothContinuation(e, f) /\ UniqueSmoothContinuation(f, e))
                => (JoinedByGrowth(e, f) \/ JoinedByClosure(e, f))

CandidateEntries ==
    {x \in [cell_id : CellIdSet, point_id : DOMAIN grid.points] :
        /\ SameJunction(x.point_id, next_point_id)
        /\ x.point_id \in Range(grid.cells[x.cell_id].ids)
        /\ x # [cell_id |-> merged_polyline.last_cell_id, point_id |-> next_point_id]}

BoundaryTangent ==
    LET ids == ChainIds(merge_points, merged_polyline.connected_cell_points)
    IN IF ids[Len(ids)] = next_point_id
       THEN Sub(grid.points[ids[Len(ids)]], grid.points[ids[Len(ids) - 1]])
       ELSE Sub(grid.points[ids[1]], grid.points[ids[2]])

SmoothCandidateEntries ==
    {x \in CandidateEntries : SmoothAngleCheck(BoundaryTangent, EndTangent(x))}

UsedPoints == UNION {Range(grid.cells[c].ids) : c \in CellIdSet}

Front(s) == SubSeq(s, 1, Len(s) - 1)

SharedPoint == CHOOSE p \in Range(grid.cells[0].ids) : p \in Range(grid.cells[1].ids)

TwoCellSmoothPair ==
    /\ GetNumberOfCells(grid) = 2
    /\ AllCellsAreLines
    /\ Cardinality(Range(grid.cells[0].ids) \cap Range(grid.cells[1].ids)) = 1
    /\ [cell_id |-> 0, point_id |-> SharedPoint] \in CellEnds
    /\ [cell_id |-> 1, point_id |-> SharedPoint] \in CellEnds
    /\ SmoothEnds([cell_id |-> 0, point_id |-> SharedPoint],
                  [cell_id |-> 1, point_id |-> SharedPoint])
    /\ \A pr \in QueryPairs(grid) : ~(pr[1] \in UsedPoints /\ pr[2] \in UsedPoints)

ExpectedPath ==
    LET a == grid.cells[0].ids
        b == grid.cells[1].ids
    IN IF a[Len(a)] = SharedPoint
       THEN a \o Tail(IF b[1] = SharedPoint THEN b ELSE Reverse(b))
       ELSE Front(IF b[Len(b)] = SharedPoint THEN b ELSE Reverse(b)) \o a

C9_TwoCellsOneOrientedChain ==
    (pc = "done" /\ TwoCellSmoothPair) =>
        /\ Len(new_cells_connectivity) = 1
        /\ ChainIds(merge_points, new_cells_connectivity[1]) = ExpectedPath
        /\ \A k \in 1 .. Len(ExpectedPath) :
              merge_points[new_cells_connectivity[1][k]].index_2 = None
        /\ output_grid.cells = <<[k \in 1 .. Len(ExpectedPath) |-> k - 1]>>
        /\ output_grid.points_x2 =
              [k \in 1 .. Len(ExpectedPath) |->
                  <<2 * grid.points[ExpectedPath[k]][1],
                    2 * grid.points[ExpectedPath[k]][2],
                    2 * grid.points[ExpectedPath[k]][3]>>]

\* The two cells meet with their first points, the second cell a polyline's
\* partner or a line.
C9_Witness ==
    /\ pc = "done"
    /\ TwoCellSmoothPair
    /\ grid.cells[0].ids[1] = SharedPoint
    /\ grid.cells[1].ids[1] = SharedPoint

(***************************************************************************)
(* C10 as stated: a closed square of 4 cells sharing their end point ids   *)
(* gives, with the default smooth_angle, exactly 1 output chain whose      *)
(* first and last entries are the same output point id.                    *)
(***************************************************************************)
IsSquare == grid.points = ZeroBased(SquarePoints)

C10_SquareIsOneClosedChain ==
    (pc = "done" /\ IsSquare) =>
        /\ Len(output_grid.cells) = 1
        /\ output_grid.cells[1][1] = output_grid.cells[1][Len(output_grid.cells[1])]

(***************************************************************************)
(* C10 as amended: the square gives exactly 1 chain, closed (first and     *)
(* last entry the same output point id, 8 output points), when every       *)
(* junction of its cells passes the smoothness test, as for cells joined   *)
(* in the middle of the sides; cells joined at the 90 degree corners give  *)
(* 4 open chains, one per cell.                                            *)
(***************************************************************************)
EveryJunctionSmooth ==
    \A e \in CellEnds : \E f \in OtherEndsAt(e) : SmoothEnds(e, f)

C10_SquareClosesIfJunctionsSmooth ==
    (pc = "done" /\ IsSquare) =>
        IF EveryJunctionSmooth
        THEN /\ Len(output_grid.cells) = 1
             /\ Len(output_grid.cells[1]) = 9
             /\ output_grid.cells[1][1] = output_grid.cells[1][9]
             /\ Len(output_grid.points_x2) = 8
        ELSE /\ Len(output_grid.cells) = 4
             /\ \A k \in 1 .. 4 :
                   output_grid.cells[k][1]
                       # output_grid.cells[k][Len(output_grid.cells[k])]

C10_Witness ==
    /\ pc = "done"
    /\ IsSquare
    /\ EveryJunctionSmooth
    /\ grid.cells[0].cls = "vtkPolyLine"
    /\ Len(output_grid.cells) = 1


(***************************************************************************)
(* C11: a ring of cells whose junctions are all accepted and whose closing *)
(* junction is two distinct point ids of one partner cluster gives one     *)
(* chain whose first and last entries are the same merge point holding     *)
(* both ids: the output cell starts and ends with the same point id, that  *)
(* point is inserted once, and its coordinates and data are the mean of    *)
(* the two source points.                                                  *)
(***************************************************************************)
\* The two cells are the two halves of the ring of the ring scene.
IsRing ==
    /\ grid.points = ZeroBased(RingPoints)
    /\ GetNumberOfCells(grid) = 2
    /\ \E a, b \in CellIdSet :
          1 \in Range(grid.cells[a].ids) /\ 4 \in Range(grid.cells[b].ids)

\* The ring is closed where the seed (cell 0) ends: the seed's last point id
\* and the point id of the other cell's end at that junction.
ClosingIds ==
    LET seed == grid.cells[0].ids
        other == grid.cells[1].ids
        s == seed[Len(seed)]
    IN {s} \cup {p \in {other[1], other[Len(other)]} : SameJunction(p, s)}

C11_PartnerRingClosesOnMeanPoint ==
    (pc = "done" /\ IsRing /\ Cardinality(ClosingIds) = 2) =>
        /\ Len(new_cells_connectivity) = 1
        /\ Len(output_grid.cells) = 1
        /\ LET chain == new_cells_connectivity[1]
               cell == output_grid.cells[1]
               first == merge_points[chain[1]]
               a == CHOOSE p \in ClosingIds : TRUE
               b == CHOOSE p \in ClosingIds : p # a
           IN /\ chain[1] = chain[Len(chain)]
              /\ {first.index_1, first.index_2} = ClosingIds
              /\ Len(cell) = 7
              /\ cell[1] = cell[7]
              /\ \A k \in 2 .. 6 : cell[k] # cell[1]
              /\ Len(output_grid.points_x2) = 6
              /\ output_grid.points_x2[cell[1] + 1] =
                    <<grid.points[a][1] + grid.points[b][1],
                      grid.points[a][2] + grid.points[b][2],
                      grid.points[a][3] + grid.points[b][3]>>
              /\ output_grid.data_x2[cell[1] + 1] =
                    grid.point_data[a] + grid.point_data[b]

\* Both junctions of the ring are pairs of near-duplicate points.
C11_Witness ==
    /\ pc = "done"
    /\ IsRing
    /\ Cardinality(ClosingIds) = 2
    /\ UsedPoints = 0 .. 7
    /\ Len(output_grid.cells) = 1


(***************************************************************************)
(* Vocabulary of the partner list: the graph of the pairs                  *)
(***************************************************************************)
PointIds == 0 .. (n_points - 1)

PairSet == Range(pairs)

InSomePair(p) == \E pr \in PairSet : p \in {pr[1], pr[2]}

RECURSIVE Reachable(_)
\* The points joined to a point of S by a chain of pairs.
Reachable(S) ==
    LET T == S \cup {q \in PointIds :
                        \E pr \in PairSet : \E p \in S : {pr[1], pr[2]} = {p, q}}
    IN IF T = S THEN S ELSE Reachable(T)

\* p and q are joined by a chain of at least one pair.
Linked(p, q) == InSomePair(p) /\ q \in Reachable({p})

PartnerListReturned == pc \in {"partner_indices", "partners_done"}

(***************************************************************************)
(* C12: when pairs_to_partner_list returns, two points carry the same      *)
(* cluster id other than -1 exactly if a chain of pairs joins them, and a  *)
(* point carries -1 exactly if it is in no pair.                           *)
(***************************************************************************)
C12_ClustersAreComponents ==
    PartnerListReturned =>
        /\ \A p, q \in PointIds :
              (partner_list[p] # -1 /\ partner_list[p] = partner_list[q])
                  <=> Linked(p, q)
        /\ \A p \in PointIds : (partner_list[p] = -1) <=> ~InSomePair(p)

\* A and B are a pair, B and C are a pair, A and C are not, and the three are
\* one cluster.
C12_Witness ==
    /\ PartnerListReturned
    /\ \E a, b, c \in PointIds :
          /\ Cardinality({a, b, c}) = 3
          /\ \E pr \in PairSet : {pr[1], pr[2]} = {a, b}
          /\ \E pr \in PairSet : {pr[1], pr[2]} = {b, c}
          /\ ~\E pr \in PairSet : {pr[1], pr[2]} = {a, c}
          /\ partner_list[a] = partner_list[c]
          /\ partner_list[a] # -1

(***************************************************************************)
(* C13: in the loop over the pairs, a pair whose two points both have a    *)
(* cluster id raises the partner error if the ids differ and changes       *)
(* nothing if they are equal, and no step changes a cluster id that a      *)
(* point already has.                                                      *)
(***************************************************************************)
C13_AssignedIdsAreFinal ==
    [][pc = "pairs_loop" =>
          /\ \A p \in PointIds :
                partner_list[p] # -1 => partner_list'[p] = partner_list[p]
          /\ i < Len(pairs) =>
                LET p0 == partner_list[pairs[i + 1][1]]
                    p1 == partner_list[pairs[i + 1][2]]
                IN (p0 # -1 /\ p1 # -1) =>
                       /\ partner_list' = partner_list
                       /\ n_partners' = n_partners
                       /\ IF p0 # p1
                          THEN pc' = "error" /\ err' = PartnerError
                          ELSE pc' = "pairs_loop" /\ err' = NoError]_vars

\* The error was raised by a pair of two established clusters.
C13_Witness ==
    /\ pc = "error"
    /\ err = PartnerError
    /\ n_partners = 2
    /\ partner_list[pairs[i + 1][1]] # partner_list[pairs[i + 1][2]]

(***************************************************************************)
(* C14 as stated: three points that are mutually closer than tol make the  *)
(* partner list raise the partner error.                                   *)
(***************************************************************************)
ThreeMutuallyClose ==
    /\ n_points = 3
    /\ PairSet = AllPairs(3)

C14_ThreeClosePointsRaise ==
    (ThreeMutuallyClose /\ pc # "pairs_loop") => (pc = "error" /\ err = PartnerError)

(***************************************************************************)
(* C14 as amended: three points that are mutually closer than tol raise    *)
(* no error and become one cluster of three; the partner error is raised   *)
(* only by a pair whose two points are already in two different clusters,  *)
(* which takes at least four points in pairs.                              *)
(***************************************************************************)
C14_ThreeClosePointsAreOneCluster ==
    /\ ThreeMutuallyClose =>
          /\ pc # "error"
          /\ PartnerListReturned =>
                /\ n_partners = 1
                /\ \A p \in PointIds : partner_list[p] = 0
    /\ pc = "error" =>
          /\ err = PartnerError
          /\ partner_list[pairs[i + 1][1]] # -1
          /\ partner_list[pairs[i + 1][2]] # -1
          /\ partner_list[pairs[i + 1][1]] # partner_list[pairs[i + 1][2]]
          /\ Cardinality({p \in PointIds : InSomePair(p)}) >= 4

\* The three points of the point cloud, all three pairs found by the query.
C14_Witness ==
    /\ pc = "partners_done"
    /\ ThreeMutuallyClose
    /\ grid # NoGrid
    /\ partner_grouped[0] = <<0, 1, 2>>

(***************************************************************************)
(* C15: after pairs_to_partner_list and point_partners_to_partner_indices  *)
(* every point has -1 or one cluster id of 0 .. n_partners - 1, n_partners *)
(* is the number of ids in use, and the member lists have at least two     *)
(* members each, are ascending, pairwise disjoint, and hold exactly the    *)
(* points with a cluster id, each in the list of its id.                   *)
(***************************************************************************)
C15_PartnerIndexWellFormed ==
    pc = "partners_done" =>
        /\ DOMAIN partner_list = PointIds
        /\ \A p \in PointIds : partner_list[p] \in (-1) .. (n_partners - 1)
        /\ n_partners = Cardinality({partner_list[p] : p \in PointIds} \ {-1})
        /\ DOMAIN partner_grouped = 0 .. (n_partners - 1)
        /\ \A c \in DOMAIN partner_grouped :
              /\ Len(partner_grouped[c]) >= 2
              /\ \A k \in 1 .. (Len(partner_grouped[c]) - 1) :
                    partner_grouped[c][k] < partner_grouped[c][k + 1]
              /\ \A d \in DOMAIN partner_grouped :
                    c # d => Range(partner_grouped[c]) \cap Range(partner_grouped[d]) = {}
              /\ Range(partner_grouped[c]) = {p \in PointIds : partner_list[p] = c}

\* A cluster of three points and a point without partner.
C15_Witness ==
    /\ pc = "partners_done"
    /\ n_partners = 1
    /\ Len(partner_grouped[0]) = 3
    /\ \E p \in PointIds : partner_list[p] = -1


(***************************************************************************)
(* Vocabulary of the emission                                              *)
(***************************************************************************)
\* The merge points of the finished chains, by handle.
UsedHandles ==
    UNION {Range(new_cells_connectivity[k]) : k \in DOMAIN new_cells_connectivity}

\* The source point ids a merge point stands for.
SourceIds(h) == {merge_points[h].index_1, merge_points[h].index_2} \ {None}

\* The source points of the cells of a chain.
ChainSourcePoints(k) ==
    UNION {Range(grid.cells[chains_cells[k][m]].ids) : m \in DOMAIN chains_cells[k]}

\* The chains that use source point p.
ChainsUsing(p) == {k \in DOMAIN chains_cells : p \in ChainSourcePoints(k)}

\* The output point ids that stand for source point p.
OutputIdsOf(p) ==
    {merge_points[h].point_id : h \in {x \in UsedHandles : p \in SourceIds(x)}}

(***************************************************************************)
(* C16 as stated: a source point referenced by more than one chain is      *)
(* inserted into the output once, and every chain that uses it references  *)
(* the same output point id.                                               *)
(***************************************************************************)
C16_SharedPointInsertedOnce ==
    pc = "done" =>
        \A p \in DOMAIN grid.points : Cardinality(OutputIdsOf(p)) <= 1

(***************************************************************************)
(* C16 as amended: insertion is deduplicated per merge point, and a merge  *)
(* point belongs to one chain: only the first and last entry of a closed   *)
(* chain share a merge point and an output id; a source point referenced   *)
(* by several chains is inserted for every chain that uses it, under a     *)
(* different output point id in each.                                      *)
(***************************************************************************)
C16_InsertedOncePerChain ==
    pc = "done" =>
        /\ \A h1, h2 \in UsedHandles :
              (merge_points[h1].point_id = merge_points[h2].point_id) <=> (h1 = h2)
        /\ Len(output_grid.points_x2) = Cardinality(UsedHandles)
        /\ \A k, m \in DOMAIN new_cells_connectivity :
              k # m => Range(new_cells_connectivity[k])
                           \cap Range(new_cells_connectivity[m]) = {}
        /\ \A k \in DOMAIN new_cells_connectivity :
              LET chain == new_cells_connectivity[k]
              IN /\ \A a, b \in DOMAIN chain :
                       (a < b /\ chain[a] = chain[b]) => (a = 1 /\ b = Len(chain))
                 /\ \A p \in ChainSourcePoints(k) :
                       \E h \in Range(chain) : p \in SourceIds(h)
        /\ \A p \in DOMAIN grid.points :
              Cardinality(OutputIdsOf(p)) >= Cardinality(ChainsUsing(p))

\* A bifurcation: three chains meet in one source point.
C16_Witness ==
    /\ pc = "done"
    /\ \E p \in DOMAIN grid.points :
          /\ Cardinality(ChainsUsing(p)) = 3
          /\ Cardinality(OutputIdsOf(p)) = 3

(***************************************************************************)
(* C17: _insert_point_by_index is idempotent per merge point: resolving    *)
(* the same merge point again returns the same output id and inserts       *)
(* nothing, so that every resolved merge point has exactly one output      *)
(* point and one tuple of the point-data array, also the shared first and  *)
(* last entry of a closed chain.                                           *)
(***************************************************************************)
C17_InsertPointIdempotent ==
    pc \in {"emit", "done"} =>
        /\ \A h \in DOMAIN merge_points :
              LET r1 == InsertPointByIndex(grid, output_grid, merge_points, h)
                  r2 == InsertPointByIndex(grid, r1.target, r1.heap, h)
                  r3 == InsertPointByIndex(grid, r2.target, r2.heap, h)
                  fresh == IF merge_points[h].point_id = None THEN 1 ELSE 0
              IN /\ r2.id = r1.id /\ r3.id = r1.id
                 /\ r2.target = r1.target /\ r3.target = r1.target
                 /\ r2.heap = r1.heap /\ r3.heap = r1.heap
                 /\ r1.heap[h].point_id = r1.id
                 /\ Len(r1.target.points_x2) = Len(output_grid.points_x2) + fresh
                 /\ Len(r1.target.data_x2) = Len(output_grid.data_x2) + fresh
        /\ Len(output_grid.points_x2)
              = Cardinality({h \in DOMAIN merge_points : merge_points[h].point_id # None})
        /\ Len(output_grid.data_x2) = Len(output_grid.points_x2)
        /\ \A k \in DOMAIN new_cells :
              LET chain == new_cells_connectivity[k]
              IN (Closed(chain) /\ Len(new_cells[k]) = Len(chain)) =>
                     new_cells[k][1] = new_cells[k][Len(chain)]

\* The last entry of a closed chain has been resolved a second time.
C17_Witness ==
    /\ pc = "emit"
    /\ new_cells # <<>>
    /\ LET k == Len(new_cells)
       IN /\ Closed(new_cells_connectivity[k])
          /\ Len(new_cells[k]) = Len(new_cells_connectivity[k])
          /\ Len(output_grid.points_x2) > 0

(***************************************************************************)
(* C20: during emission the output only grows: a merge point resolved for  *)
(* the first time gets the number of points already in the output as its   *)
(* id, points, data and ids already there are never changed, and the ids   *)
(* of the output cells, read chain after chain in discovery order, first   *)
(* occur in the order 0, 1, 2, ... without gaps.                           *)
(***************************************************************************)
\* The point ids of the output cells emitted so far, in emission order.
EmittedIds == Flatten(new_cells)

C20_OutputOnlyGrows ==
    /\ [](pc \in {"emit", "done"} =>
            /\ {merge_points[h].point_id : h \in DOMAIN merge_points} \ {None}
                  = 0 .. (Len(output_grid.points_x2) - 1)
            /\ \A k \in DOMAIN EmittedIds :
                  EmittedIds[k] \in
                      0 .. Cardinality({EmittedIds[m] : m \in 1 .. (k - 1)})
            /\ \A k \in DOMAIN new_cells :
                  \A m \in DOMAIN new_cells[k] :
                      new_cells[k][m]
                          = merge_points[new_cells_connectivity[k][m]].point_id)
    /\ [][(pc = "emit" /\ pc' = "emit") =>
            LET h == new_cells_connectivity[emit_chain][emit_pos]
                n == Len(output_grid.points_x2)
            IN /\ SubSeq(output_grid'.points_x2, 1, n) = output_grid.points_x2
               /\ SubSeq(output_grid'.data_x2, 1, n) = output_grid.data_x2
               /\ \A x \in DOMAIN merge_points :
                     merge_points[x].point_id # None => merge_points'[x] = merge_points[x]
               /\ IF merge_points[h].point_id = None
                  THEN /\ merge_points'[h].point_id = n
                       /\ Len(output_grid'.points_x2) = n + 1
                  ELSE output_grid' = output_grid
               /\ SubSeq(Flatten(new_cells'), 1, Len(EmittedIds)) = EmittedIds
               /\ Len(Flatten(new_cells')) = Len(EmittedIds) + 1]_vars

\* Three chains have been emitted, with six output points.
C20_Witness ==
    /\ pc = "done"
    /\ Len(output_grid.cells) = 3
    /\ Len(output_grid.points_x2) = 6


(***************************************************************************)
(* C19: without output_grid the call returns a new grid holding the merged *)
(* result; with an output_grid it writes the merged result into that grid, *)
(* replacing what it held, and returns None; the merged result is the same *)
(* in both modes, namely the one determined by the input grid alone.       *)
(***************************************************************************)
C19_OutputModes ==
    pc = "done" =>
        /\ returned = IF output_grid_given THEN "None" ELSE "output_grid"
        /\ \A r \in MergePolylines(grid) :
              /\ r.status = "ok"
              /\ output_grid = r.output_grid

\* A call with a grid handed in has written two chains into it.
C19_Witness ==
    /\ pc = "done"
    /\ output_grid_given
    /\ returned = "None"
    /\ Len(output_grid.cells) = 2
    /\ output_grid.points_x2[1] # StaleGrid.points_x2[1]


(***************************************************************************)
(* The cleaned mesh: every partner cluster collapsed to one point id       *)
(***************************************************************************)
\* The points that share the cluster of p.
ClusterOf(p) ==
    IF partner_list[p] = None THEN {p} ELSE Range(partner_grouped[partner_list[p]])

\* The id that stands for p in the cleaned mesh: the smallest of its cluster.
CleanId(p) == CHOOSE q \in ClusterOf(p) : \A x \in ClusterOf(p) : q <= x

\* The grid with every cell renumbered to the cluster ids; the points that
\* are no longer referenced are put aside, far from every other point.
CleanedGrid ==
    [grid EXCEPT
        !.points = [p \in DOMAIN grid.points |->
                       IF CleanId(p) = p THEN grid.points[p]
                       ELSE <<1000 + 10 * p, 1000, 1000>>],
        !.cells = [c \in DOMAIN grid.cells |->
                      [grid.cells[c] EXCEPT
                          !.ids = [k \in DOMAIN grid.cells[c].ids |->
                                      CleanId(grid.cells[c].ids[k])]]]]

\* Point p is referenced only as the first or last point of cells.
EndPointOnly(p) ==
    \A c \in DOMAIN grid.cells :
        \A k \in DOMAIN grid.cells[c].ids :
            grid.cells[c].ids[k] = p => k \in {1, Len(grid.cells[c].ids)}

\* The grid has partner clusters, each of coincident points that are cell
\* end points.
PartnerJoinedMesh ==
    /\ n_partners > 0
    /\ \A p \in DOMAIN grid.points : partner_list[p] # None => EndPointOnly(p)
    /\ \A p, q \in DOMAIN grid.points :
          (partner_list[p] # None /\ partner_list[p] = partner_list[q])
              => grid.points[p] = grid.points[q]

\* The point order of the chains, in the ids of the cleaned mesh.
CleanChainIds ==
    [k \in DOMAIN new_cells_connectivity |->
        [m \in DOMAIN new_cells_connectivity[k] |->
            CleanId(merge_points[new_cells_connectivity[k][m]].index_1)]]

(***************************************************************************)
(* C18: a finished merge of a mesh whose coincident end points are stored  *)
(* as distinct ids, joined through partner clusters, groups the cells into *)
(* the same chains, in the same chain order and point order, as the merge  *)
(* of the cleaned mesh, which finishes as well.                            *)
(***************************************************************************)
C18_SameChainsAsCleanedMesh ==
    (pc = "done" /\ PartnerJoinedMesh) =>
        \A r \in MergePolylines(CleanedGrid) :
            /\ r.status = "ok"
            /\ r.chains_cells = chains_cells
            /\ r.chains_ids = CleanChainIds
            /\ r.output_grid.cells = output_grid.cells


(***************************************************************************)
(* Vocabulary of the seeds                                                 *)
(***************************************************************************)
\* The position of cell c in the order of consumption.
ConsumedAt(c) == CHOOSE a \in DOMAIN consumed : consumed[a] = c

\* The seed of finished chain k: the cell of the chain consumed first.
SeedOf(k) ==
    CHOOSE c \in Range(chains_cells[k]) :
        \A d \in Range(chains_cells[k]) : ConsumedAt(c) <= ConsumedAt(d)

\* The cells of the chains finished before chain k.
CellsBefore(k) == UNION {Range(chains_cells[m]) : m \in 1 .. (k - 1)}

\* The points of cell c are the entries a+1 .. a+n of finished chain k, in
\* the cell's stored order.
RunInChain(c, k, a) ==
    LET ids == grid.cells[c].ids
        chain == new_cells_connectivity[k]
    IN /\ a + Len(ids) <= Len(chain)
       /\ \A m \in DOMAIN ids : ids[m] \in SourceIds(chain[a + m])

(***************************************************************************)
(* C21: the seed of every chain is the lowest-id cell that no earlier      *)
(* chain has consumed, so the chains are in strictly increasing order of   *)
(* their seeds; the seed is marked consumed before growth starts; and the  *)
(* seed's points are a contiguous run of the finished chain, in the order  *)
(* the cell stores them.                                                   *)
(***************************************************************************)
C21_SeedIsLowestAvailable ==
    /\ [](\A k \in DOMAIN chains_cells :
            /\ \A c \in CellIdSet \ CellsBefore(k) : SeedOf(k) <= c
            /\ \A m \in 1 .. (k - 1) : SeedOf(m) < SeedOf(k)
            /\ \E a \in 0 .. Len(new_cells_connectivity[k]) :
                  RunInChain(SeedOf(k), k, a))
    /\ [][(pc = "find" /\ pc' = "grow") =>
            /\ next_cell_id' \in Available
            /\ \A c \in Available : next_cell_id' <= c
            /\ old_cell_tracker' = [old_cell_tracker EXCEPT ![next_cell_id'] = None]
            /\ consumed' = Append(consumed, next_cell_id')
            /\ ChainIds(merge_points', merged_polyline'.connected_cell_points)
                  = grid.cells[next_cell_id'].ids
            /\ merged_polyline'.last_cell_id = next_cell_id']_vars
    /\ [][(pc = "grow" /\ pc' = "grow") =>
            /\ old_cell_tracker'[next_cell_id] = None
            /\ next_cell_id' = next_cell_id
            /\ \E a \in 0 .. Len(merged_polyline'.connected_cell_points) :
                  SubSeq(ChainIds(merge_points', merged_polyline'.connected_cell_points),
                         a + 1, a + Len(grid.cells[next_cell_id].ids))
                      = grid.cells[next_cell_id].ids]_vars

\* The second chain is seeded by cell 2, and the seed of the first chain has
\* had a cell put in front of it.
C21_Witness ==
    /\ pc = "done"
    /\ Len(chains_cells) >= 2
    /\ SeedOf(2) = 2
    /\ SeedOf(1) = 0
    /\ chains_cells[1][1] # 0


(***************************************************************************)
(* Vocabulary of the Y-bifurcation                                         *)
(***************************************************************************)
\* s, a, b are the three ends of a junction, of three cells: the stem s is
\* smooth to both branches a and b, the branches are not smooth to each other.
YBifurcation(s, a, b) ==
    /\ EndsAt(s.point_id) = {s, a, b}
    /\ Cardinality({s.cell_id, a.cell_id, b.cell_id}) = 3
    /\ SmoothEnds(s, a)
    /\ SmoothEnds(s, b)
    /\ ~SmoothEnds(a, b)

\* The one smooth candidate of the call is smooth to another candidate.
ChosenSmoothToAnother ==
    /\ Cardinality(SmoothCandidateEntries) = 1
    /\ \E c \in SmoothCandidateEntries :
          \E x \in CandidateEntries :
              x.cell_id # c.cell_id /\ SmoothEnds(c, x)

\* A call of _add_next_cell with a unique smooth candidate that is smooth
\* to another candidate leaves the chain as it is.
AmbiguousCallStops ==
    [][(/\ pc = "grow"
        /\ next_point_id # None
        /\ CandidateEntries \subseteq CellEnds
        /\ ChosenSmoothToAnother) =>
            /\ next_point_id' = None
            /\ merged_polyline' = merged_polyline
            /\ merge_points' = merge_points
            /\ old_cell_tracker' = old_cell_tracker
            /\ pc' = "grow"]_vars

\* e and f are the stem and a branch of a Y-bifurcation, in either order.
StemAndBranch(e, f) ==
    \E b \in EndsAt(e.point_id) : YBifurcation(e, f, b) \/ YBifurcation(f, e, b)

\* The pairs of cell ends that check_closed has brought together.
ClosureJoins ==
    {j \in UNION {[boundary : {[cell_id |-> chains_cells[k][1], point_id |-> p] :
                                   p \in SourceIds(new_cells_connectivity[k][1])},
                   added : {[cell_id |-> chains_cells[k][Len(chains_cells[k])],
                             point_id |-> p] :
                                   p \in SourceIds(new_cells_connectivity[k][1])}] :
                      k \in {m \in DOMAIN new_cells_connectivity :
                                Closed(new_cells_connectivity[m])}} :
        {j.boundary, j.added} \subseteq CellEnds /\ j.boundary # j.added}

(***************************************************************************)
(* C22 as stated: a call whose one smooth candidate is smooth to another   *)
(* candidate does not extend the chain; and at a Y-bifurcation whose stem  *)
(* is smooth to both branches while the branches are not smooth to each    *)
(* other, no output chain joins the stem with a branch.                    *)
(***************************************************************************)
C22_NoChainJoinsStemAndBranch ==
    /\ AmbiguousCallStops
    /\ [](\A j \in joins \cup ClosureJoins : ~StemAndBranch(j.boundary, j.added))

(***************************************************************************)
(* C22 as amended: a call whose one smooth candidate is smooth to another  *)
(* candidate does not extend the chain; and at such a Y-bifurcation no     *)
(* call of _add_next_cell joins the stem with a branch.  check_closed      *)
(* makes no such test: a chain that came back to the junction round a ring *)
(* is closed there.                                                        *)
(***************************************************************************)
C22_NoGrowthJoinsStemAndBranch ==
    /\ AmbiguousCallStops
    /\ [](\A j \in joins : ~StemAndBranch(j.boundary, j.added))

\* A finished run on three cells of a Y-bifurcation, in three chains, whose
\* growth reached the junction from a branch.
C22_Witness ==
    /\ pc = "done"
    /\ Len(chains_cells) = 3
    /\ \E s, a, b \in CellEnds :
          /\ YBifurcation(s, a, b)
          /\ chains_cells[1] = <<a.cell_id>>
          /\ a.cell_id = 0


(***************************************************************************)
(* C23: check_closed makes the chain's last entry the same object as its   *)
(* first entry exactly if the two have the same index_1 or the last        *)
(* entry's index_1 is in the partner cluster of the first entry's; it sets *)
(* the first entry's index_2 to the last entry's index_1 only in the       *)
(* second case; otherwise the chain's entries and their ids are left as    *)
(* they were; interior entries are never modified.                         *)
(***************************************************************************)
C23_CheckClosedFrame ==
    [][(pc = "closed" /\ pc' = "find") =>
          LET chain == merged_polyline.connected_cell_points
              after == merged_polyline'.connected_cell_points
              n == Len(chain)
              first == merge_points[chain[1]]
              last == merge_points[chain[n]]
              same_id == first.index_1 = last.index_1
              partners == /\ first.index_1 # last.index_1
                          /\ partner_list[first.index_1] # -1
                          /\ partner_list[last.index_1] = partner_list[first.index_1]
          IN /\ chain[1] # chain[n]
             /\ Len(after) = n
             /\ (after[n] = after[1]) <=> (same_id \/ partners)
             /\ \A k \in 1 .. (n - 1) : after[k] = chain[k]
             /\ \A h \in DOMAIN merge_points :
                   h # chain[1] => merge_points'[h] = merge_points[h]
             /\ DOMAIN merge_points' = DOMAIN merge_points
             /\ merge_points'[chain[1]] =
                   IF partners THEN [first EXCEPT !.index_2 = last.index_1] ELSE first
             /\ ~(same_id \/ partners) => after = chain
             /\ new_cells_connectivity' = Append(new_cells_connectivity, after)]_vars

\* check_closed has just closed a chain of two cells over two partner points.
C23_Witness ==
    /\ pc = "find"
    /\ new_cells_connectivity # <<>>
    /\ LET k == Len(new_cells_connectivity)
           chain == new_cells_connectivity[k]
       IN /\ Closed(chain)
          /\ merge_points[chain[1]].index_2 # None
          /\ Len(chains_cells[k]) = 2
          /\ merged_polyline.connected_cell_points = chain

(***************************************************************************)
(* Vocabulary of a join step                                               *)
(***************************************************************************)
\* The step is a call of _add_next_cell that has added a cell.
JoinStep ==
    /\ pc = "grow"
    /\ next_point_id # None
    /\ consumed' # consumed

\* The points of cell c read from its end at point q to its other end.
IdsFrom(c, q) ==
    LET ids == grid.cells[c].ids
    IN IF ids[1] = q THEN ids ELSE Reverse(ids)

(***************************************************************************)
(* C24: a step of _add_next_cell that joins a cell of k points lengthens   *)
(* the chain by k-1 entries at the end whose index_1 is the boundary id;   *)
(* the junction is the boundary merge point that was there before, whose   *)
(* index_2 becomes the new cell's connecting point id exactly if that id   *)
(* differs from the boundary id and otherwise stays None; the returned     *)
(* boundary id is the index_1 of the chain's new first or last entry.      *)
(***************************************************************************)
C24_JoinLengthensByCellMinusOne ==
    [][JoinStep =>
          LET chain == merged_polyline.connected_cell_points
              after == merged_polyline'.connected_cell_points
              n == Len(chain)
              c == consumed'[Len(consumed')]
              j == CHOOSE x \in joins' \ joins : TRUE
              q == j.added.point_id
              k == Len(grid.cells[c].ids)
              far == SubSeq(IdsFrom(c, q), 2, k)
              appended == /\ SubSeq(after, 1, n) = chain
                          /\ merge_points[chain[n]].index_1 = next_point_id
                          /\ SubSeq(ChainIds(merge_points', after), n + 1, n + k - 1) = far
                          /\ next_point_id' = merge_points'[after[n + k - 1]].index_1
              prepended == /\ SubSeq(after, k, n + k - 1) = chain
                           /\ merge_points[chain[1]].index_1 = next_point_id
                           /\ SubSeq(ChainIds(merge_points', after), 1, k - 1) = Reverse(far)
                           /\ next_point_id' = merge_points'[after[1]].index_1
              boundary == IF appended THEN chain[n] ELSE chain[1]
          IN /\ Cardinality(joins' \ joins) = 1
             /\ j.added.cell_id = c
             /\ q \in {grid.cells[c].ids[1], grid.cells[c].ids[k]}
             /\ Len(after) = n + k - 1
             /\ appended \/ prepended
             /\ \A m \in DOMAIN after : \A l \in DOMAIN after : m # l => after[m] # after[l]
             /\ merge_points[boundary].index_2 = None
             /\ merge_points'[boundary] =
                   [merge_points[boundary] EXCEPT
                       !.index_2 = IF q # next_point_id THEN q ELSE None]
             /\ \A h \in DOMAIN merge_points :
                   h # boundary => merge_points'[h] = merge_points[h]
             /\ \A m \in DOMAIN after :
                   after[m] \notin Range(chain) =>
                       /\ after[m] \notin DOMAIN merge_points
                       /\ merge_points'[after[m]].index_2 = None
                       /\ merge_points'[after[m]].point_id = None
             /\ old_cell_tracker' = [old_cell_tracker EXCEPT ![c] = None]
             /\ merged_polyline'.last_cell_id = c]_vars

\* A polyline of three points has been joined in front of the chain through
\* a partner point.
C24_Witness ==
    /\ pc = "grow"
    /\ next_point_id # None
    /\ Len(chain_cells) = 2
    /\ chain_cells[2] = next_cell_id
    /\ Len(grid.cells[chain_cells[1]].ids) = 3
    /\ Len(merged_polyline.connected_cell_points)
          = Len(grid.cells[next_cell_id].ids) + 2
    /\ merge_points[merged_polyline.connected_cell_points[3]].index_2 # None


(***************************************************************************)
(* C25: check_closed runs exactly once for every discovered chain, after   *)
(* growth from both ends of the chain has halted and before any point of   *)
(* any chain is resolved: no output point is inserted until the tracker is *)
(* exhausted and every chain has been through check_closed.                *)
(***************************************************************************)
\* The chains discovered so far: every consumed cell is a seed or was joined.
ChainsDiscovered == Len(consumed) - Cardinality(joins)

\* The calls of check_closed so far: each appends one chain to the result.
ChainsCheckedClosed == Len(new_cells_connectivity)

\* No merge point has an output id and the output has no point.
NothingResolved ==
    /\ output_grid = EmptyGrid
    /\ new_cells = <<>>
    /\ \A h \in DOMAIN merge_points : merge_points[h].point_id = None

C25_CheckClosedOncePerChain ==
    /\ [](/\ pc = "closed" =>
             /\ start_pos = 2
             /\ next_point_id = None
             /\ ChainsDiscovered = ChainsCheckedClosed + 1
          /\ pc = "grow" => ChainsDiscovered = ChainsCheckedClosed + 1
          /\ pc \in {"find", "emit", "done"} => ChainsDiscovered = ChainsCheckedClosed
          /\ pc \in {"search", "find", "grow", "closed"} => NothingResolved
          /\ pc \in {"emit", "done"} =>
               /\ Available = {}
               /\ ChainsDiscovered = GetNumberOfCells(grid) - Cardinality(joins))
    /\ [][/\ ChainsCheckedClosed' # ChainsCheckedClosed =>
               /\ pc = "closed"
               /\ ChainsCheckedClosed' = ChainsCheckedClosed + 1
               /\ ChainsDiscovered' = ChainsDiscovered
               /\ pc' = "find"
          /\ pc = "closed" => ChainsCheckedClosed' = ChainsCheckedClosed + 1
          /\ ~NothingResolved' /\ NothingResolved => pc = "emit"
          /\ pc = "emit" =>
               /\ new_cells_connectivity' = new_cells_connectivity
               /\ \A h \in DOMAIN merge_points :
                     /\ merge_points'[h].index_1 = merge_points[h].index_1
                     /\ merge_points'[h].index_2 = merge_points[h].index_2]_vars

\* The first output point is inserted after two chains have been through
\* check_closed, the first of them a chain of two cells.
C25_Witness ==
    /\ pc = "emit"
    /\ Len(output_grid.points_x2) = 1
    /\ ChainsCheckedClosed = 2
    /\ Len(chains_cells[1]) = 2

(***************************************************************************)
(* C26: whenever _add_next_cell has chosen a continuation cell, one of the *)
(* four orientation cases matches: the connecting point is the first or    *)
(* last point of the chosen cell and connected_point_id is the index_1 of  *)
(* the chain's first or last entry; ValueError("This should not happen")   *)
(* is never raised.                                                        *)
(***************************************************************************)
C26_OrientationAlwaysMatches ==
    /\ err # OrientationError
    /\ (pc = "grow" /\ next_point_id # None) =>
          LET chain_ids == ChainIds(merge_points, merged_polyline.connected_cell_points)
              possible == PossibleNextCells(grid, partner_list, partner_grouped,
                                            merged_polyline.last_cell_id, next_point_id)
              tangent == GetIndicesTangent(grid, chain_ids, next_point_id)
              all_ok == \A k \in 1 .. Len(possible) : CellTangent(grid, possible[k]).ok
              smooth == SmoothConnectedCells(grid, possible, tangent.t)
          IN /\ next_point_id \in {chain_ids[1], chain_ids[Len(chain_ids)]}
             /\ (all_ok /\ Continues(grid, old_cell_tracker, possible, smooth)) =>
                   LET new_ids == grid.cells[smooth[1].cell_id].ids
                   IN /\ smooth[1].point_id \in {new_ids[1], new_ids[Len(new_ids)]}
                      /\ Orientation(new_ids, smooth[1].point_id,
                                     chain_ids, next_point_id).ok

\* A cell found through a partner point has been put in front of the seed,
\* its points reversed.
C26_Witness ==
    /\ pc = "grow"
    /\ Len(chain_cells) = 2
    /\ chain_cells[2] = next_cell_id
    /\ LET ids == grid.cells[chain_cells[1]].ids
           chain == merged_polyline.connected_cell_points
       IN /\ merge_points[chain[Len(ids)]].index_2 = ids[1]
          /\ merge_points[chain[1]].index_1 = ids[Len(ids)]


(***************************************************************************)
(* C27: the outcome of pairs_to_partner_list depends only on the set of    *)
(* pairs: every processing order that is sorted by the first point id      *)
(* raises the ambiguous-cluster error if the order of this call has raised *)
(* it, and otherwise returns the same grouping of the points into clusters.*)
(***************************************************************************)
\* The grouping of a partner index list: the pairs of points in one cluster.
GroupingOf(list) ==
    {pr \in (DOMAIN list) \X (DOMAIN list) :
        list[pr[1]] # -1 /\ list[pr[1]] = list[pr[2]]}

C27_OutcomeIndependentOfTieOrder ==
    (pc \in {"partners_done", "error"}) =>
        \A other \in SortedPairOrders(PairSet) :
            LET r == PairsToPartnerList(other, n_points)
            IN /\ r.raised <=> (pc = "error")
               /\ ~r.raised => GroupingOf(r.partner_index_list) = GroupingOf(partner_list)


(***************************************************************************)
(* Renumbering the cells                                                   *)
(***************************************************************************)
\* The grid with cell k of the new numbering being cell perm[k] of the old.
Renumbered(perm) ==
    [grid EXCEPT !.cells = [k \in DOMAIN grid.cells |-> grid.cells[perm[k]]]]

\* The partition of the cells into chains, in the numbering of the grid.
ChainPartition == {Range(chains_cells[k]) : k \in DOMAIN chains_cells}

\* The partition a call on the renumbered grid has returned, in the
\* numbering of the grid.
PartitionOf(r, perm) ==
    {{perm[r.chains_cells[k][m]] : m \in DOMAIN r.chains_cells[k]} :
        k \in DOMAIN r.chains_cells}

(***************************************************************************)
(* C28: the partition of the cells into output chains does not depend on   *)
(* the numbering of the cells: a finished merge and the merge of the same  *)
(* cells in any other numbering put the same cells together.               *)
(***************************************************************************)
C28_PartitionIndependentOfNumbering ==
    pc = "done" =>
        \A perm \in Permutations(CellIdSet) :
            \A r \in MergePolylines(Renumbered(perm)) :
                /\ r.status = "ok"
                /\ PartitionOf(r, perm) = ChainPartition


(***************************************************************************)
(* C29 as stated: when merge_polylines has raised an error, a grid handed  *)
(* in as output_grid holds exactly what it held before the call.           *)
(***************************************************************************)
C29_OutputUnchangedOnError ==
    (pc = "error" /\ output_grid_given) => output_grid = StaleGrid

(***************************************************************************)
(* C29 as amended: when merge_polylines has raised the unsupported cell    *)
(* type error, a grid handed in as output_grid holds exactly what it held  *)
(* before the call; when it has raised any later error (ambiguous partner  *)
(* cluster, a ValueError of _add_next_cell) the grid has been reset and is *)
(* empty: what it held is lost, and no point or cell has been written.     *)
(***************************************************************************)
C29_OutputResetUnlessTypeError ==
    pc = "error" =>
        /\ returned = "raised"
        /\ IF err.text = UnsupportedCellError(grid, 0).text
           THEN /\ UnsupportedCells # {}
                /\ output_grid = IF output_grid_given THEN StaleGrid ELSE EmptyGrid
           ELSE /\ err \in {PartnerError, TangentError, OrientationError}
                /\ output_grid = EmptyGrid
                /\ \A h \in DOMAIN merge_points : merge_points[h].point_id = None

\* The partner search has raised with a grid handed in, which is now empty.
C29_Witness ==
    /\ pc = "error"
    /\ output_grid_given
    /\ err = PartnerError
    /\ output_grid = EmptyGrid
    /\ StaleGrid # EmptyGrid


(***************************************************************************)
(* C30: at every moment of the traversal and after check_closed, a merge   *)
(* point that carries two source ids carries two different point ids of    *)
(* one partner cluster; an index_2, once set, is never overwritten; and    *)
(* only an entry that is or was a chain end carries an index_2.            *)
(***************************************************************************)
\* The positions of a chain of these cells at which two cells meet, and its
\* two ends.
EndPositions(cells) ==
    {JoinedLength(SubSeq(cells, 1, m)) : m \in 0 .. Len(cells)}

\* The entries of chain at positions other than EndPositions(cells) carry
\* one id.
TwoIdsOnlyAtEnds(chain, cells) ==
    \A m \in DOMAIN chain :
        merge_points[chain[m]].index_2 # None => m \in EndPositions(cells)

\* The merge points that are an entry of a finished chain or of the chain
\* being grown.
EntriesOfChains ==
    UsedHandles \cup Range(merged_polyline.connected_cell_points)

C30_SecondIndexIsPartner ==
    /\ [](\A h \in DOMAIN merge_points :
            merge_points[h].index_2 # None =>
                /\ merge_points[h].index_2 # merge_points[h].index_1
                /\ merge_points[h].index_1 \in DOMAIN grid.points
                /\ merge_points[h].index_2 \in DOMAIN grid.points
                /\ partner_list[merge_points[h].index_1] # -1
                /\ partner_list[merge_points[h].index_2]
                      = partner_list[merge_points[h].index_1]
                /\ h \in EntriesOfChains)
    /\ [](/\ \A k \in DOMAIN new_cells_connectivity :
                TwoIdsOnlyAtEnds(new_cells_connectivity[k], chains_cells[k])
          /\ pc \in {"grow", "closed"} =>
                /\ TwoIdsOnlyAtEnds(merged_polyline.connected_cell_points, chain_cells)
                /\ LET chain == merged_polyline.connected_cell_points
                   IN /\ merge_points[chain[1]].index_2 = None
                      /\ merge_points[chain[Len(chain)]].index_2 = None)
    /\ [][\A h \in DOMAIN merge_points :
            /\ merge_points[h].index_2 # None =>
                  merge_points'[h].index_2 = merge_points[h].index_2
            /\ merge_points'[h].index_1 = merge_points[h].index_1
            /\ merge_points'[h].index_2 # merge_points[h].index_2 =>
                  LET chain == merged_polyline.connected_cell_points
                  IN /\ pc \in {"grow", "closed"}
                     /\ h \in {chain[1], chain[Len(chain)]}]_vars

\* A finished closed chain whose closing entry and whose inner junction both
\* carry two ids.
C30_Witness ==
    /\ pc = "done"
    /\ \E k \in DOMAIN new_cells_connectivity :
          LET chain == new_cells_connectivity[k]
          IN /\ Closed(chain)
             /\ merge_points[chain[1]].index_2 # None
             /\ \E m \in 2 .. (Len(chain) - 1) : merge_points[chain[m]].index_2 # None

====
